---- MODULE Spec2Model ----
(***************************************************************************)
(* Job lifecycle of rex: the direct (pgrep/kill) and the SLURM             *)
(* (squeue/sacct) execution backends, their watch_job poll loops and the   *)
(* multi-job loop of commands/jobs.py:watch_jobs.                          *)
(*                                                                         *)
(* Strings are TLA+ strings; Len, \o and SubSeq act on them character by   *)
(* character.  The remote host is modelled by what its commands print:     *)
(* pgrep scans a process table of command lines, squeue and sacct print a  *)
(* state word, ssh fails with exit code 255 and empty output.              *)
(***************************************************************************)
EXTENDS Integers, Sequences, FiniteSets, TLC

VARIABLES
    \* ---- watch_job (execution/direct.py, execution/slurm.py) ----
    wBackend,   \* "direct" or "slurm": which executor's watch_job runs
    wPc,        \* "poll" | "sleep" | "done": position in the while loop
    failures,   \* local variable `failures` of watch_job
    polls,      \* number of status queries issued so far
    sleeps,     \* number of time.sleep(poll_interval) calls so far
    hist,       \* what the status source answered on each poll, in order
    acct,       \* what the accounting query answered ("none": not asked)
    wResult,    \* the JobResult returned, or NoResult
    \* ---- watch_jobs, more than one job (commands/jobs.py) ----
    mBackend,   \* which executor watch_jobs was handed
    job_ids,    \* the argument job_ids, a list
    mPc,        \* "while" | "for" | "sleep" | "done"
    pending,    \* local `pending`, a set of job ids
    results,    \* local `results`, a dict job id -> JobResult
    todo,       \* what is left of list(pending) in the running for loop
    mRound,     \* number of rounds (for loops) started
    mSleeps,    \* number of time.sleep calls so far
    mAns,       \* per job: what its status source answered, in order
    mReport,    \* per reported job: round and sleep count at the report
    mRet,       \* return value of watch_jobs, or None
    \* ---- DirectExecutor against the remote process table ----
    procs,      \* live remote processes: [pid, ppid, cmd, job, via]
    nextPid,    \* next process id the remote kernel hands out
    started,    \* job id -> entry point that launched it
    lastOp,     \* the executor call that returned last, with its result
    \* ---- SlurmExecutor against the remote scheduler ----
    queue,      \* live queue: job name -> [state, slurm_id] (what squeue sees)
    history,    \* accounting: job name -> final state (what sacct sees)
    remote,     \* remote files written under ~/.rex
    logHeader,  \* job names whose log received the "Status: pending" header
    submitted,  \* job names handed to sbatch so far
    nextSlurmId,\* next job id the scheduler hands out
    sOp,        \* the SlurmExecutor call that returned last, with its result
    \* ---- quoting a value and reading it back on the remote shell ----
    qValue,     \* the value handed to the quoting function
    qFn,        \* the function applied: quote_with_expansion or _shell_quote
    qPc,        \* "value" | "quoted" | "read"
    qOut,       \* what the function returned
    qRead,      \* what the remote shell made of qOut
    \* ---- applying an ExecutionContext (execution/script.py) ----
    ctx,        \* the ExecutionContext: modules, env, code_dir, run_dir
    mkdir_run_dir, \* the keyword argument of the same name
    cPc,        \* "new" | "shebang" | "applied" | "built"
    lines,      \* ScriptBuilder._lines
    commands,   \* the list build_context_commands returned
    \* ---- the batch script: SbatchBuilder, and the job running it ----
    options,    \* SlurmExecutor.options, a SlurmOptions
    bEntry,     \* "run" (run_detached) or "exec" (exec_detached)
    payload,    \* the payload line: python_cmd of run_detached, cmd of exec_detached
    sbatch_options, \* SbatchBuilder._sbatch_options
    sbatch_content, \* what builder.build() returned
    bPc,        \* "new" | "built" | "running" | "exited"
    shScript,   \* the lines of the script file as the job's shell was handed them
    shLine,     \* the line of the script the job's shell reads next
    shStatus,   \* $? of the job's shell
    rex_exit,   \* the shell variable _rex_exit ("" while unset)
    payCode,    \* exit code of the payload's last command (None: not run)
    jobLog,     \* lines the job has written to its log
    shCode,     \* exit code of the batch script (None: still running)
    \* ---- foreground execution and its temporary remote files ----
    tmpFiles,   \* remote temporary files: path -> content
    fRuns,      \* number of foreground calls made (generate_script_id)
    fOp,        \* the foreground call that returned last, with its result
    \* ---- the ControlMaster connection (ssh/connection.py) ----
    sockets,    \* target -> "none" | "live" | "stale": the socket file and its master
    connOp,     \* the connection call that ended last, with its outcome
    \* ---- the log of a batch job: the client's header and the job's output ----
    logFile,    \* the lines of ~/.rex/rex-<job>.log
    lPc,        \* the client: "sbatch" | "echo1" .. "echo4" | "returned" | "no_header"
    lSlurmId,   \* slurm_id parsed from the sbatch answer (None: not submitted)
    jobState,   \* the job in the scheduler: "none" | "pending" | "running" | "ended"
    jobTodo,    \* the lines the job is still to write
    jobOut,     \* the lines the job has written, in order
    \* ---- one invocation of the command line (cli.py) ----
    cliArgs,    \* the parsed arguments: the job flag given, its value, --last, --slurm
    cliPc,      \* "idle" | "parsed" | "validated" | "raised" | "dispatched"
    cliJobIds,  \* the job ids handed to the executor or to a job command
    cliSent     \* the remote command lines and paths built from them

wvars == <<wBackend, wPc, failures, polls, sleeps, hist, acct, wResult>>

mvars == <<mBackend, job_ids, mPc, pending, results, todo, mRound, mSleeps,
           mAns, mReport, mRet>>

pvars == <<procs, nextPid, started, lastOp>>

svars == <<queue, history, remote, logHeader, submitted, nextSlurmId, sOp>>

qvars == <<qValue, qFn, qPc, qOut, qRead>>

cvars == <<ctx, mkdir_run_dir, cPc, lines, commands>>

bvars == <<options, bEntry, payload, sbatch_options, sbatch_content, bPc,
           shScript, shLine, shStatus, rex_exit, payCode, jobLog, shCode>>

fvars == <<tmpFiles, fRuns, fOp>>

nvars == <<sockets, connOp>>

lvars == <<logFile, lPc, lSlurmId, jobState, jobTodo, jobOut>>

avars == <<cliArgs, cliPc, cliJobIds, cliSent>>

vars == <<wBackend, wPc, failures, polls, sleeps, hist, acct, wResult,
          mBackend, job_ids, mPc, pending, results, todo, mRound, mSleeps,
          mAns, mReport, mRet, procs, nextPid, started, lastOp,
          queue, history, remote, logHeader, submitted, nextSlurmId, sOp,
          qValue, qFn, qPc, qOut, qRead, ctx, mkdir_run_dir, cPc, lines, commands,
          options, bEntry, payload, sbatch_options, sbatch_content, bPc,
          shScript, shLine, shStatus, rex_exit, payCode, jobLog, shCode,
          tmpFiles, fRuns, fOp, sockets, connOp,
          logFile, lPc, lSlurmId, jobState, jobTodo, jobOut,
          cliArgs, cliPc, cliJobIds, cliSent>>

\* ---------------------------------------------------------------------
\* Bounds
\* ---------------------------------------------------------------------
MaxPolls == 5       \* watch_job is followed for at most this many polls
MaxRounds == 3      \* watch_jobs is followed for at most this many rounds
MaxPid == 5         \* the remote host hands out process ids up to this one

\* ---------------------------------------------------------------------
\* String helpers (Python str methods used by the code)
\* ---------------------------------------------------------------------
Ch(s, i) == SubSeq(s, i, i)

Whitespace == {" ", "\n", "\t", "\r"}

RECURSIVE LStrip(_)
LStrip(s) ==
    IF Len(s) > 0 /\ Ch(s, 1) \in Whitespace
    THEN LStrip(SubSeq(s, 2, Len(s)))
    ELSE s

RECURSIVE RStrip(_)
RStrip(s) ==
    IF Len(s) > 0 /\ Ch(s, Len(s)) \in Whitespace
    THEN RStrip(SubSeq(s, 1, Len(s) - 1))
    ELSE s

\* str.strip()
Strip(s) == RStrip(LStrip(s))

Digits == <<"0", "1", "2", "3", "4", "5", "6", "7", "8", "9">>

DigitVal(c) == (CHOOSE d \in 1..10 : Digits[d] = c) - 1

\* int(s) for a non-empty string of decimal digits
RECURSIVE ParseInt(_)
ParseInt(s) ==
    IF Len(s) = 0 THEN 0
    ELSE 10 * ParseInt(SubSeq(s, 1, Len(s) - 1)) + DigitVal(Ch(s, Len(s)))

\* str(n) for a natural number, as the remote `echo $pid` / pgrep print it
RECURSIVE IntToStr(_)
IntToStr(n) ==
    IF n < 10 THEN Digits[n + 1]
    ELSE IntToStr(n \div 10) \o Digits[(n % 10) + 1]

\* str.lower() on the upper-case state words squeue prints
Upper == <<"A","B","C","D","E","F","G","H","I","J","K","L","M",
           "N","O","P","Q","R","S","T","U","V","W","X","Y","Z">>
Lower == <<"a","b","c","d","e","f","g","h","i","j","k","l","m",
           "n","o","p","q","r","s","t","u","v","w","x","y","z">>

LowerCh(c) ==
    IF \E k \in 1..26 : Upper[k] = c
    THEN Lower[CHOOSE k \in 1..26 : Upper[k] = c]
    ELSE c

RECURSIVE ToLower(_)
ToLower(s) ==
    IF Len(s) = 0 THEN ""
    ELSE LowerCh(Ch(s, 1)) \o ToLower(SubSeq(s, 2, Len(s)))

\* ---------------------------------------------------------------------
\* Records of execution/base.py
\* ---------------------------------------------------------------------
\* Python None in an int | None field (pid, slurm_id)
None == -1

NoResult == [job_id |-> "", status |-> "none", exit_code |-> -1]

JobStatus(job_id, status, pid) == [job_id |-> job_id, status |-> status, pid |-> pid]

JobResult(job_id, status, exit_code) ==
    [job_id |-> job_id, status |-> status, exit_code |-> exit_code]

\* ---------------------------------------------------------------------
\* The remote session: ssh.exec(cmd) -> (code, stdout)
\* ---------------------------------------------------------------------
SshFailure == [code |-> 255, stdout |-> ""]

ExecOk(stdout) == [code |-> 0, stdout |-> stdout]

max_failures == 3

\* ---------------------------------------------------------------------
\* DirectExecutor.get_status, after the pgrep command has answered
\* ---------------------------------------------------------------------
\* variant: get_status without the `if code != 0` test
DirectStatusOf_NoCodeTest(job_id, out) ==
    LET pid == IF Strip(out.stdout) # "" THEN ParseInt(Strip(out.stdout)) ELSE None
    IN  IF pid # None /\ pid # 0
        THEN JobStatus(job_id, "running", pid)
        ELSE JobStatus(job_id, "done", pid)

DirectStatusOf(job_id, out) ==
    IF out.code # 0
    THEN JobStatus(job_id, "unknown", None)
    ELSE LET pid == IF Strip(out.stdout) # "" THEN ParseInt(Strip(out.stdout)) ELSE None
         IN  IF pid # None /\ pid # 0
             THEN JobStatus(job_id, "running", pid)
             ELSE JobStatus(job_id, "done", pid)

\* ---------------------------------------------------------------------
\* What the status source of a watched job answers, and what that looks
\* like on the wire.
\*   "fail"    the status query failed at the transport level
\*   "running" / "pending"   the job is alive (pending: SLURM only)
\*   "gone"    no live process / the job has left the live queue
\* ---------------------------------------------------------------------
WatchedJob == "t1"

\* process ids the remote pgrep may print for the watched job
SamplePids == {7, 12}

Answers(b) ==
    IF b = "direct" THEN {"fail", "running", "gone"}
    ELSE {"fail", "running", "pending", "completing", "gone"}

\* what sacct prints in its State column for a finished job ("" : no row;
\* "CANCELLED+" : the column cut short, as for "CANCELLED by <uid>")
AcctStates == {"COMPLETED", "FAILED", "CANCELLED", "TIMEOUT", "NODE_FAIL",
               "OUT_OF_MEMORY", "CANCELLED+", ""}

AcctAnswers == AcctStates \cup {"fail"}

\* pgrep -f '<pattern>' | head -1
PgrepWire(ans, pid) ==
    CASE ans = "fail"    -> SshFailure
      [] ans = "running" -> ExecOk(IntToStr(pid) \o "\n")
      [] OTHER           -> ExecOk("")

\* squeue -u $USER -n rex-<job> -h -o %T
SqueueWire(ans) ==
    CASE ans = "fail"    -> SshFailure
      [] ans = "running" -> ExecOk("RUNNING\n")
      [] ans = "pending" -> ExecOk("PENDING\n")
      [] ans = "completing" -> ExecOk("COMPLETING\n")
      [] OTHER           -> ExecOk("")

\* sacct -n -X --name=rex-<job> --format=State | head -1 | tr -d ' '
SacctWire(a) ==
    IF a = "fail" THEN SshFailure
    ELSE IF a = "" THEN ExecOk("") ELSE ExecOk(a \o "\n")

\* ---------------------------------------------------------------------
\* watch_job: one iteration of `while True`, up to the sleep or the return
\* ---------------------------------------------------------------------
\* variant: the budget test written `failures > max_failures`
WatchTransportFailure_OffByOne ==
    /\ failures' = failures + 1
    /\ IF failures + 1 > max_failures
       THEN /\ wResult' = JobResult(WatchedJob, "unknown", 1)
            /\ wPc' = "done"
       ELSE /\ wResult' = wResult
            /\ wPc' = "sleep"
    /\ acct' = acct

\* the `if failures >= max_failures` branch shared by both backends
WatchTransportFailure ==
    /\ failures' = failures + 1
    /\ IF failures + 1 >= max_failures
       THEN /\ wResult' = JobResult(WatchedJob, "unknown", 1)
            /\ wPc' = "done"
       ELSE /\ wResult' = wResult
            /\ wPc' = "sleep"
    /\ acct' = acct

\* variant: the terminal test written `status.status == "completed"`
DirectWatchPoll_Completed(ans, pid) ==
    LET status == DirectStatusOf(WatchedJob, PgrepWire(ans, pid)) IN
    /\ wBackend = "direct"
    /\ IF status.status = "unknown"
       THEN WatchTransportFailure
       ELSE /\ failures' = 0
            /\ acct' = acct
            /\ IF status.status = "completed"
               THEN /\ wResult' = JobResult(WatchedJob, "done", 0)
                    /\ wPc' = "done"
               ELSE /\ wResult' = wResult
                    /\ wPc' = "sleep"

\* DirectExecutor.watch_job
DirectWatchPoll(ans, pid) ==
    LET status == DirectStatusOf(WatchedJob, PgrepWire(ans, pid)) IN
    /\ wBackend = "direct"
    /\ IF status.status = "unknown"
       THEN WatchTransportFailure
       ELSE /\ failures' = 0
            /\ acct' = acct
            /\ IF status.status = "done"
               THEN /\ wResult' = JobResult(WatchedJob, "done", 0)
                    /\ wPc' = "done"
               ELSE /\ wResult' = wResult
                    /\ wPc' = "sleep"

\* variant: NODE_FAIL is missing from the failed states
SlurmFinalResult_NoNodeFail(out) ==
    LET sacct_status == Strip(out.stdout) IN
    IF sacct_status = "COMPLETED"
    THEN JobResult(WatchedJob, "success", 0)
    ELSE IF sacct_status \in {"FAILED", "CANCELLED", "TIMEOUT"}
         THEN JobResult(WatchedJob, "failed", 1)
         ELSE JobResult(WatchedJob, "done", 0)

\* the sacct branch of SlurmExecutor.watch_job
SlurmFinalResult(out) ==
    LET sacct_status == Strip(out.stdout) IN
    IF sacct_status = "COMPLETED"
    THEN JobResult(WatchedJob, "success", 0)
    ELSE IF sacct_status \in {"FAILED", "CANCELLED", "TIMEOUT", "NODE_FAIL"}
         THEN JobResult(WatchedJob, "failed", 1)
         ELSE JobResult(WatchedJob, "done", 0)

\* variant: `failures = 0` after a successful poll is missing
SlurmWatchPoll_NoReset(ans, a) ==
    LET out == SqueueWire(ans) IN
    /\ wBackend = "slurm"
    /\ IF out.code # 0
       THEN WatchTransportFailure
       ELSE /\ failures' = failures
            /\ IF Strip(out.stdout) = ""
               THEN /\ acct' = a
                    /\ wResult' = SlurmFinalResult(SacctWire(a))
                    /\ wPc' = "done"
               ELSE /\ acct' = acct
                    /\ wResult' = wResult
                    /\ wPc' = "sleep"

\* SlurmExecutor.watch_job
SlurmWatchPoll(ans, a) ==
    LET out == SqueueWire(ans) IN
    /\ wBackend = "slurm"
    /\ IF out.code # 0
       THEN WatchTransportFailure
       ELSE /\ failures' = 0
            /\ IF Strip(out.stdout) = ""
               THEN /\ acct' = a
                    /\ wResult' = SlurmFinalResult(SacctWire(a))
                    /\ wPc' = "done"
               ELSE /\ acct' = acct
                    /\ wResult' = wResult
                    /\ wPc' = "sleep"

WatchPoll ==
    /\ wPc = "poll"
    /\ polls < MaxPolls
    /\ \E ans \in Answers(wBackend) :
          /\ hist' = Append(hist, ans)
          /\ polls' = polls + 1
          /\ \/ \E pid \in SamplePids : DirectWatchPoll(ans, pid)
             \/ \E a \in AcctAnswers : SlurmWatchPoll(ans, a)
    /\ UNCHANGED <<wBackend, sleeps>>

\* time.sleep(poll_interval), then back to the top of the loop
WatchSleep ==
    /\ wPc = "sleep"
    /\ sleeps' = sleeps + 1
    /\ wPc' = "poll"
    /\ UNCHANGED <<wBackend, failures, polls, hist, acct, wResult>>

\* ---------------------------------------------------------------------
\* Records of the remote process table and of a finished executor call
\* ---------------------------------------------------------------------
NoProc == [pid |-> None, ppid |-> None, cmd |-> "", job |-> "", via |-> ""]

NoStatus == [job_id |-> "", status |-> "none", pid |-> None]

NoInfo == [job_id |-> "", log_path |-> "", is_slurm |-> FALSE, pid |-> None]

JobInfo(job_id, log_path, is_slurm, pid) ==
    [job_id |-> job_id, log_path |-> log_path, is_slurm |-> is_slurm, pid |-> pid]

NoOp == [op |-> "none", job_id |-> "", code |-> 0, snap |-> {}, jobs |-> <<>>,
         status |-> NoStatus, info |-> NoInfo, ret |-> FALSE, target |-> NoProc,
         sig |-> FALSE, raised |-> "none"]

\* JobInfo as the SLURM backend fills it
SlurmJobInfo(job_id, log_path, slurm_id) ==
    [job_id |-> job_id, log_path |-> log_path, is_slurm |-> TRUE,
     slurm_id |-> slurm_id, pid |-> None]

NoSlurmInfo == SlurmJobInfo("", "", None)

NoSlurmOp == [op |-> "none", job_id |-> "", code |-> 0, queue |-> <<>>,
              history |-> <<>>, status |-> NoStatus, info |-> NoSlurmInfo,
              jobs |-> <<>>, raised |-> "none", warned |-> FALSE,
              failed |-> FALSE, out |-> ExecOk("")]

\* the scheduler knows no job of rex and no SlurmExecutor call has been made
IdleSlurm ==
    /\ queue = <<>>
    /\ history = <<>>
    /\ remote = {}
    /\ logHeader = {}
    /\ submitted = {}
    /\ nextSlurmId = 9
    /\ sOp = NoSlurmOp

\* what the shell read, before it has read anything
NoRead == [words |-> <<>>, closed |-> FALSE, clean |-> FALSE, expansions |-> {},
           cmdsub |-> FALSE]

\* no value is being quoted
IdleQuote ==
    /\ qValue = ""
    /\ qFn = "none"
    /\ qPc = "read"
    /\ qOut = ""
    /\ qRead = NoRead

\* Optional[str]: None is <<>>, a string s is <<s>>
NoStr == <<>>

Some(s) == <<s>>

\* `if x:` for an Optional[str]
Truthy(x) == Len(x) = 1 /\ x[1] # ""

ExecutionContext(modules, code_dir, run_dir, env) ==
    [python |-> "python3", modules |-> modules, code_dir |-> code_dir,
     run_dir |-> run_dir, env |-> env]

\* no script is being built
IdleContext ==
    /\ ctx = ExecutionContext(<<>>, NoStr, NoStr, <<>>)
    /\ mkdir_run_dir = FALSE
    /\ cPc = "idle"
    /\ lines = <<>>
    /\ commands = <<>>

\* SlurmOptions (execution/slurm.py); a field is None (<<>>) or <<value>>
SlurmOptions(partition, gres, time, cpus, mem, constraint, prefer) ==
    [partition |-> partition, gres |-> gres, time |-> time, cpus |-> cpus,
     mem |-> mem, constraint |-> constraint, prefer |-> prefer]

\* no batch script is being built or run
IdleBatch ==
    /\ options = SlurmOptions(NoStr, NoStr, NoStr, NoStr, NoStr, NoStr, NoStr)
    /\ bEntry = "none"
    /\ payload = ""
    /\ sbatch_options = <<>>
    /\ sbatch_content = ""
    /\ bPc = "idle"
    /\ shScript = <<>>
    /\ shLine = 0
    /\ shStatus = 0
    /\ rex_exit = ""
    /\ payCode = None
    /\ jobLog = <<>>
    /\ shCode = None

\* a foreground call and its result: ret is the value returned (None when
\* the call raised), calls the number of remote-session calls it made,
\* created the temporary files it created, written the text the heredoc
\* left in the command file, leaked the lines of the write command the
\* remote shell ran after the heredoc, code the payload's exit code
NoFgOp == [op |-> "none", backend |-> "none", cmd |-> "", prefix |-> "", ret |-> None,
           raised |-> "none", calls |-> 0, created |-> {}, written |-> "",
           leaked |-> <<>>, code |-> None]

\* no foreground call has been made
IdleFg ==
    /\ tmpFiles = <<>>
    /\ fRuns = 0
    /\ fOp = NoFgOp

\* the targets connections are made to
Targets == {"user@host", "gpu"}

\* a connection call and its outcome: rc is the exit code of the ssh process
\* it ran (None: it ran none), ret what the method returned ("none" when it
\* did not return), raised the exception that left it, exit the exit code
\* of the command, msgs what it printed
NoConnOp == [op |-> "none", target |-> "", rc |-> None, ret |-> "none",
             raised |-> "none", exit |-> None, msgs |-> <<>>]

\* no connection exists and no connection call has been made
IdleConn ==
    /\ sockets = [t \in Targets |-> "none"]
    /\ connOp = NoConnOp

NoArgs == [flag |-> "none", value |-> "", last |-> FALSE, slurm |-> FALSE]

\* the command line has not been invoked
IdleCli ==
    /\ cliArgs = NoArgs
    /\ cliPc = "idle"
    /\ cliJobIds = <<>>
    /\ cliSent = <<>>

\* no batch job's log is being followed
IdleLog ==
    /\ logFile = <<>>
    /\ lPc = "idle"
    /\ lSlurmId = None
    /\ jobState = "none"
    /\ jobTodo = <<>>
    /\ jobOut = <<>>

\* no remote process of rex exists and no call has been made
IdleProc ==
    /\ procs = {}
    /\ nextPid = 2
    /\ started = <<>>
    /\ lastOp = NoOp

\* no watch_jobs call is under way
IdleMulti ==
    /\ mBackend = "direct"
    /\ job_ids = <<>>
    /\ mPc = "done"
    /\ pending = {}
    /\ results = <<>>
    /\ todo = {}
    /\ mRound = 0
    /\ mSleeps = 0
    /\ mAns = <<>>
    /\ mReport = <<>>
    /\ mRet = None

InitWatch ==
    /\ wBackend \in {"direct", "slurm"}
    /\ wPc = "poll"
    /\ failures = 0
    /\ polls = 0
    /\ sleeps = 0
    /\ hist = <<>>
    /\ acct = "none"
    /\ wResult = NoResult
    /\ IdleMulti
    /\ IdleProc
    /\ IdleSlurm
    /\ IdleQuote
    /\ IdleContext
    /\ IdleBatch
    /\ IdleFg
    /\ IdleConn
    /\ IdleLog
    /\ IdleCli

NextWatch ==
    \/ WatchPoll /\ UNCHANGED <<mvars, pvars, svars, qvars, cvars, bvars, fvars, nvars, lvars, avars>>
    \/ WatchSleep /\ UNCHANGED <<mvars, pvars, svars, qvars, cvars, bvars, fvars, nvars, lvars, avars>>

SpecWatch == InitWatch /\ [][NextWatch]_vars

\* ---------------------------------------------------------------------
\* SlurmExecutor.get_status, after the squeue command has answered
\* ---------------------------------------------------------------------
SlurmStatusOf(job_id, out) ==
    LET state == Strip(out.stdout) IN
    IF state # ""
    THEN JobStatus(job_id, ToLower(state), None)
    ELSE JobStatus(job_id, "done", None)

\* executor.get_status(job_id) as watch_jobs calls it.  The call passes one
\* argument where the executors declare (target, job_id); the argument is
\* taken as the job id, which is what the loop does with the answer.
GetStatus(b, job_id, ans, pid) ==
    IF b = "direct"
    THEN DirectStatusOf(job_id, PgrepWire(ans, pid))
    ELSE SlurmStatusOf(job_id, SqueueWire(ans))

\* ---------------------------------------------------------------------
\* watch_jobs with more than one job id (commands/jobs.py)
\* ---------------------------------------------------------------------
Range(f) == {f[i] : i \in DOMAIN f}

Max2(a, b) == IF a >= b THEN a ELSE b

\* max(r.exit_code for r in results.values())
RECURSIVE MaxExitCode(_, _)
MaxExitCode(res, keys) ==
    IF keys = {} THEN 0
    ELSE LET k == CHOOSE x \in keys : TRUE
         IN  Max2(res[k].exit_code, MaxExitCode(res, keys \ {k}))

\* no watch_job call is under way
IdleWatch ==
    /\ wBackend = "direct"
    /\ wPc = "done"
    /\ failures = 0
    /\ polls = 0
    /\ sleeps = 0
    /\ hist = <<>>
    /\ acct = "none"
    /\ wResult = NoResult

\* the job ids handed to --watch
WatchIds == {"a", "b"}

\* pending = set(job_ids); results = {}
InitMulti ==
    /\ IdleWatch
    /\ mBackend \in {"direct", "slurm"}
    /\ job_ids \in [1..2 -> WatchIds]
    /\ mPc = "while"
    /\ pending = Range(job_ids)
    /\ results = <<>>
    /\ todo = {}
    /\ mRound = 0
    /\ mSleeps = 0
    /\ mAns = [j \in Range(job_ids) |-> <<>>]
    /\ mReport = <<>>
    /\ mRet = None
    /\ IdleProc
    /\ IdleSlurm
    /\ IdleQuote
    /\ IdleContext
    /\ IdleBatch
    /\ IdleFg
    /\ IdleConn
    /\ IdleLog
    /\ IdleCli

\* `while pending:` found true; `for job_id in list(pending)` takes its copy
MultiRoundStart ==
    /\ mPc = "while"
    /\ pending # {}
    /\ mRound < MaxRounds
    /\ todo' = pending
    /\ mRound' = mRound + 1
    /\ mPc' = "for"
    /\ UNCHANGED <<mBackend, job_ids, pending, results, mSleeps, mAns, mReport, mRet>>

\* variant: a finished job is recorded but left in `pending`
MultiPoll_NoRemove(job_id, ans, pid) ==
    LET status == GetStatus(mBackend, job_id, ans, pid)
        final  == status.status \notin {"running", "pending"}
        exit_code == IF status.status = "completed" THEN 0 ELSE 1
    IN
    /\ mPc = "for"
    /\ job_id \in todo
    /\ mAns' = [mAns EXCEPT ![job_id] = Append(@, ans)]
    /\ pending' = pending
    /\ IF final
       THEN /\ results' = (job_id :> JobResult(job_id, status.status, exit_code)) @@ results
            /\ mReport' = (job_id :> [round |-> mRound, sleeps |-> mSleeps]) @@ mReport
       ELSE UNCHANGED <<results, mReport>>
    /\ todo' = todo \ {job_id}
    /\ mPc' = IF todo \ {job_id} # {} THEN "for" ELSE "sleep"
    /\ UNCHANGED <<mBackend, job_ids, mRound, mSleeps, mRet>>

\* one pass through the body of the for loop; after the last one the
\* `if pending:` test chooses between the sleep and the loop exit
MultiPoll(job_id, ans, pid) ==
    LET status == GetStatus(mBackend, job_id, ans, pid)
        final  == status.status \notin {"running", "pending"}
        exit_code == IF status.status = "completed" THEN 0 ELSE 1
        pend   == IF final THEN pending \ {job_id} ELSE pending
    IN
    /\ mPc = "for"
    /\ job_id \in todo
    /\ mAns' = [mAns EXCEPT ![job_id] = Append(@, ans)]
    /\ pending' = pend
    /\ IF final
       THEN /\ results' = (job_id :> JobResult(job_id, status.status, exit_code)) @@ results
            /\ mReport' = (job_id :> [round |-> mRound, sleeps |-> mSleeps]) @@ mReport
       ELSE UNCHANGED <<results, mReport>>
    /\ todo' = todo \ {job_id}
    /\ mPc' = IF todo \ {job_id} # {} THEN "for"
              ELSE IF pend # {} THEN "sleep" ELSE "while"
    /\ UNCHANGED <<mBackend, job_ids, mRound, mSleeps, mRet>>

\* time.sleep(poll_interval) at the end of a round
MultiSleep ==
    /\ mPc = "sleep"
    /\ mSleeps' = mSleeps + 1
    /\ mPc' = "while"
    /\ UNCHANGED <<mBackend, job_ids, pending, results, todo, mRound, mAns, mReport, mRet>>

\* variant: the loop is left as soon as some job has a result
MultiReturn_AnyResult ==
    /\ mPc = "while"
    /\ DOMAIN results # {}
    /\ mRet' = MaxExitCode(results, DOMAIN results)
    /\ mPc' = "done"
    /\ UNCHANGED <<mBackend, job_ids, pending, results, todo, mRound, mSleeps, mAns, mReport>>

\* `while pending:` found false: return max(exit codes)
MultiReturn ==
    /\ mPc = "while"
    /\ pending = {}
    /\ mRet' = MaxExitCode(results, DOMAIN results)
    /\ mPc' = "done"
    /\ UNCHANGED <<mBackend, job_ids, pending, results, todo, mRound, mSleeps, mAns, mReport>>

NextMulti ==
    \/ MultiRoundStart /\ UNCHANGED <<wvars, pvars, svars, qvars, cvars, bvars, fvars, nvars, lvars, avars>>
    \/ (\E j \in WatchIds : \E ans \in Answers(mBackend) : \E pid \in SamplePids :
            MultiPoll(j, ans, pid)) /\ UNCHANGED <<wvars, pvars, svars, qvars, cvars, bvars, fvars, nvars, lvars, avars>>
    \/ MultiSleep /\ UNCHANGED <<wvars, pvars, svars, qvars, cvars, bvars, fvars, nvars, lvars, avars>>
    \/ MultiReturn /\ UNCHANGED <<wvars, pvars, svars, qvars, cvars, bvars, fvars, nvars, lvars, avars>>

SpecMulti == InitMulti /\ [][NextMulti]_vars

\* ---------------------------------------------------------------------
\* watch_jobs on one job id and on two, fed the same answers
\* (commands/jobs.py).  `rex --watch J` takes the len(job_ids) == 1 branch
\* and returns executor.watch_job(J).exit_code; `rex --watch J b` takes
\* the loop.  The first run is followed to its return; the second run is
\* then given, for J, the answers the first one received, in order; the
\* first run is followed for as many polls as the second has rounds.
\* ---------------------------------------------------------------------
OtherJob == "b"

InitCompare ==
    /\ wBackend \in {"direct", "slurm"}
    /\ wPc = "poll"
    /\ failures = 0
    /\ polls = 0
    /\ sleeps = 0
    /\ hist = <<>>
    /\ acct = "none"
    /\ wResult = NoResult
    /\ mBackend = wBackend
    /\ job_ids = <<WatchedJob, OtherJob>>
    /\ mPc = "while"
    /\ pending = Range(job_ids)
    /\ results = <<>>
    /\ todo = {}
    /\ mRound = 0
    /\ mSleeps = 0
    /\ mAns = [j \in Range(job_ids) |-> <<>>]
    /\ mReport = <<>>
    /\ mRet = None
    /\ IdleProc
    /\ IdleSlurm
    /\ IdleQuote
    /\ IdleContext
    /\ IdleBatch
    /\ IdleFg
    /\ IdleConn
    /\ IdleLog
    /\ IdleCli

\* the backend's next answer about job_id in the second run
NextAnswers(job_id) ==
    IF job_id = WatchedJob
    THEN IF Len(mAns[job_id]) < Len(hist) THEN {hist[Len(mAns[job_id]) + 1]} ELSE {}
    ELSE Answers(mBackend)

NextCompare ==
    \/ polls < MaxRounds /\ WatchPoll /\ UNCHANGED mvars /\ UNCHANGED <<pvars, svars, qvars, cvars, bvars, fvars, nvars, lvars, avars>>
    \/ WatchSleep /\ UNCHANGED mvars /\ UNCHANGED <<pvars, svars, qvars, cvars, bvars, fvars, nvars, lvars, avars>>
    \/ wPc = "done" /\ MultiRoundStart /\ UNCHANGED wvars /\ UNCHANGED <<pvars, svars, qvars, cvars, bvars, fvars, nvars, lvars, avars>>
    \/ (\E j \in Range(job_ids) : \E ans \in NextAnswers(j) : \E pid \in SamplePids :
            wPc = "done" /\ MultiPoll(j, ans, pid)) /\ UNCHANGED wvars /\ UNCHANGED <<pvars, svars, qvars, cvars, bvars, fvars, nvars, lvars, avars>>
    \/ MultiSleep /\ UNCHANGED wvars /\ UNCHANGED <<pvars, svars, qvars, cvars, bvars, fvars, nvars, lvars, avars>>
    \/ MultiReturn /\ UNCHANGED wvars /\ UNCHANGED <<pvars, svars, qvars, cvars, bvars, fvars, nvars, lvars, avars>>

SpecCompare == InitCompare /\ [][NextCompare]_vars

\* ---------------------------------------------------------------------
\* Job names and the names derived from them (utils.py, direct.py)
\* ---------------------------------------------------------------------
RECURSIVE CharsOf(_)
CharsOf(s) == IF Len(s) = 0 THEN {} ELSE {Ch(s, 1)} \cup CharsOf(SubSeq(s, 2, Len(s)))

\* the character set of r"^[a-zA-Z0-9_-]+$"
JobNameChars == Range(Upper) \cup Range(Lower) \cup Range(Digits) \cup {"_", "-"}

\* name matches [a-zA-Z0-9_-]+ from its first character to its last
ValidJobName(name) == Len(name) > 0 /\ CharsOf(name) \subseteq JobNameChars

\* names a caller may pass as --name
SampleNames == {"a", "rex-a", "a.b", ""}

JobIds == {n \in SampleNames : ValidJobName(n)}

\* variant: the dot written bare, `rex-{job_id}.py`
job_pattern_BareDot(job_id) == "rex-" \o job_id \o ".py"

\* utils.job_pattern
job_pattern(job_id) == "rex-" \o job_id \o "[.]py"

remote_script(job_name) == "/tmp/rex-" \o job_name \o ".py"

remote_log(job_name) == "/tmp/rex-" \o job_name \o ".log"

\* s.replace("'", "'\\''")
RECURSIVE EscapeSingleQuotes(_)
EscapeSingleQuotes(s) ==
    IF Len(s) = 0 THEN ""
    ELSE IF Len(s) = 1 THEN (IF s = "'" THEN "'\\''" ELSE s)
    ELSE LET h == Len(s) \div 2
         IN  EscapeSingleQuotes(SubSeq(s, 1, h)) \o EscapeSingleQuotes(SubSeq(s, h + 1, Len(s)))

\* _shell_quote (ssh/executor.py and execution/direct.py, same body)
_shell_quote(s) == "'" \o EscapeSingleQuotes(s) \o "'"

\* SSHExecutor.exec: the command line handed to the remote login shell
Wrapped(cmd) == "bash --norc --noprofile -c " \o _shell_quote(cmd)

\* the commands the direct backend sends
GetStatusCmd(job_id) == "pgrep -f '" \o job_pattern(job_id) \o "' | head -1"

KillJobCmd(job_id) ==
    "pid=$(pgrep -f '" \o job_pattern(job_id) \o "' | head -1); " \o
    "if [ -n \"$pid\" ]; then kill \"$pid\" 2>/dev/null && echo killed || echo failed; " \o
    "else echo not_running; fi"

ListJobsScript ==
    "\n" \o
    "for log in /tmp/rex-*.log ~/.rex/rex-*.log; do\n" \o
    "    [ -f \"$log\" ] || continue\n" \o
    "    job=$(basename \"$log\" .log | sed \"s/rex-//\")\n" \o
    "    pattern=\"rex-${job}[.]py\"\n" \o
    "    pid=$(pgrep -f \"$pattern\" 2>/dev/null | head -1)\n" \o
    "    if [ -n \"$pid\" ]; then\n" \o
    "        status=\"running\"\n" \o
    "    else\n" \o
    "        status=\"done\"\n" \o
    "        pid=\"-\"\n" \o
    "    fi\n" \o
    "    # Get first line of script as description\n" \o
    "    desc=\"\"\n" \o
    "    script_tmp=\"/tmp/rex-${job}.py\"\n" \o
    "    if [ -f \"$script_tmp\" ]; then\n" \o
    "        desc=$(head -1 \"$script_tmp\" | sed \"s/^#[[:space:]]*//\" | cut -c1-40)\n" \o
    "    fi\n" \o
    "    printf \"%s\\t%s\\t%s\\t%s\\n\" \"$job\" \"$status\" \"$pid\" \"$desc\"\n" \o
    "done\n"

ListJobsCmd == "bash -c " \o _shell_quote(ListJobsScript)

\* ctx.python of a default ExecutionContext
CtxPython == "python3"

\* run_detached: python_cmd and the exit-code reporting wrapper (no args,
\* no context commands)
PythonCmd(job_name) == CtxPython \o " -u " \o remote_script(job_name)

RunWrapper(job_name) ==
    "{ " \o PythonCmd(job_name) \o "; code=$?; " \o
    "if [ $code -gt 128 ]; then echo \"[rex] Killed by signal $((code-128))\" >&2; " \o
    "elif [ $code -ne 0 ]; then echo \"[rex] Exit code: $code\" >&2; fi; }"

\* shell commands a caller hands to exec_detached
Cmds == {"sleep 10"}

\* ---------------------------------------------------------------------
\* The remote side: pgrep -f over the process table
\* ---------------------------------------------------------------------
\* does the regular expression pat match s starting at position k?
\* (literal characters, `.`, and bracket expressions `[...]`)
RECURSIVE RegexMatchAt(_, _, _, _)
RegexMatchAt(pat, i, s, k) ==
    IF i > Len(pat) THEN TRUE
    ELSE IF k > Len(s) THEN FALSE
    ELSE IF Ch(pat, i) = "[" /\ \E c \in (i + 2)..Len(pat) : Ch(pat, c) = "]"
    THEN LET close == CHOOSE c \in (i + 2)..Len(pat) :
                          /\ Ch(pat, c) = "]"
                          /\ \A d \in (i + 2)..(c - 1) : Ch(pat, d) # "]"
         IN  /\ Ch(s, k) \in {Ch(pat, d) : d \in (i + 1)..(close - 1)}
             /\ RegexMatchAt(pat, close + 1, s, k + 1)
    ELSE IF Ch(pat, i) = "."
    THEN RegexMatchAt(pat, i + 1, s, k + 1)
    ELSE Ch(s, k) = Ch(pat, i) /\ RegexMatchAt(pat, i + 1, s, k + 1)

\* pgrep -f matches the pattern anywhere in the full command line
RegexSearch(pat, s) == \E k \in 1..(Len(s) + 1) : RegexMatchAt(pat, 1, s, k)

\* every command the direct backend sends for a job of JobIds
SentCmds == {GetStatusCmd(j) : j \in JobIds} \cup {KillJobCmd(j) : j \in JobIds}

\* SSHExecutor.exec of each of them, computed once
WrappedOf == [c \in SentCmds |-> Wrapped(c)]

\* every command line a process of the remote host can have
CmdLines ==
    {"bash -c " \o RunWrapper(j) : j \in JobIds} \cup {PythonCmd(j) : j \in JobIds}
    \cup {"bash -l -c " \o c : c \in Cmds}
    \cup {"bash -c " \o WrappedOf[c] : c \in SentCmds}
    \cup {"bash --norc --noprofile -c " \o c : c \in SentCmds}
    \cup {"head -1"}

\* which command lines each pattern matches, computed once
RECURSIVE HitTable(_)
HitTable(pairs) ==
    IF pairs = {} THEN <<>>
    ELSE LET pc == CHOOSE x \in pairs : TRUE
         IN  (pc :> RegexSearch(pc[1], pc[2])) @@ HitTable(pairs \ {pc})

Hit == HitTable({job_pattern(j) : j \in JobIds} \X CmdLines)

Matching(pat, table) == {p \in table : Hit[<<pat, p.cmd>>]}

MinPid(ps) == CHOOSE n \in {p.pid : p \in ps} : \A q \in ps : n <= q.pid

\* `pgrep -f <pat> | head -1`: the lowest matching pid, or nothing
PgrepHead1(pat, table) ==
    IF Matching(pat, table) = {} THEN ""
    ELSE IntToStr(MinPid(Matching(pat, table))) \o "\n"

\* the processes that exist on the remote host only while cmd runs: the
\* login shell sshd starts, the bash it starts, and head (pgrep leaves
\* itself out of its own scan)
Transient(cmd, np) ==
    { [pid |-> np,     ppid |-> 1,      cmd |-> "bash -c " \o WrappedOf[cmd], job |-> "", via |-> "ssh"],
      [pid |-> np + 1, ppid |-> np,     cmd |-> "bash --norc --noprofile -c " \o cmd, job |-> "", via |-> "ssh"],
      [pid |-> np + 2, ppid |-> np + 1, cmd |-> "head -1", job |-> "", via |-> "ssh"] }

ProcOf(pid, table) == CHOOSE p \in table : p.pid = pid

\* ---------------------------------------------------------------------
\* DirectExecutor entry points
\* ---------------------------------------------------------------------
\* run_detached(ctx, script_path, [], job_name).  A job name is used for one
\* launch only: two callers picking the same identifier is outside the
\* design (spec section 5).  The remote bash forks the interpreter, so the
\* job has two processes whose command lines both name the script.
\* `copied`: whether the scp of the script succeeds; subprocess.run(...,
\* check=True) raises CalledProcessError when it does not.
run_detached(job_name, copied, ok) ==
    LET out  == IF ok THEN ExecOk(IntToStr(nextPid) \o "\n") ELSE SshFailure
        pid  == IF Strip(out.stdout) # "" THEN ParseInt(Strip(out.stdout)) ELSE None
    IN
    /\ job_name \notin DOMAIN started
    /\ nextPid + 1 <= MaxPid
    /\ IF ~copied
       THEN /\ lastOp' = [NoOp EXCEPT !.op = "run_detached", !.job_id = job_name,
                                      !.code = 1, !.snap = procs, !.jobs = started,
                                      !.raised = "CalledProcessError"]
            /\ UNCHANGED <<procs, nextPid, started>>
       ELSE /\ IF ok
               THEN /\ procs' = procs \cup
                          { [pid |-> nextPid, ppid |-> 1,
                             cmd |-> "bash -c " \o RunWrapper(job_name),
                             job |-> job_name, via |-> "run_detached"],
                            [pid |-> nextPid + 1, ppid |-> nextPid,
                             cmd |-> PythonCmd(job_name),
                             job |-> job_name, via |-> "run_detached"] }
                    /\ nextPid' = nextPid + 2
               ELSE UNCHANGED <<procs, nextPid>>
            /\ started' = (job_name :> "run_detached") @@ started
            /\ lastOp' = [NoOp EXCEPT !.op = "run_detached", !.job_id = job_name,
                                      !.code = out.code, !.snap = procs, !.jobs = started,
                                      !.info = JobInfo(job_name, remote_log(job_name),
                                                       FALSE, pid)]

\* exec_detached(ctx, cmd, job_name)
exec_detached(job_name, cmd, ok) ==
    LET full_cmd == cmd
        out  == IF ok THEN ExecOk(IntToStr(nextPid) \o "\n") ELSE SshFailure
        pid  == IF Strip(out.stdout) # "" THEN ParseInt(Strip(out.stdout)) ELSE None
    IN
    /\ job_name \notin DOMAIN started
    /\ nextPid <= MaxPid
    /\ IF ok
       THEN /\ procs' = procs \cup
                  { [pid |-> nextPid, ppid |-> 1, cmd |-> "bash -l -c " \o full_cmd,
                     job |-> job_name, via |-> "exec_detached"] }
            /\ nextPid' = nextPid + 1
       ELSE UNCHANGED <<procs, nextPid>>
    /\ started' = (job_name :> "exec_detached") @@ started
    /\ lastOp' = [NoOp EXCEPT !.op = "exec_detached", !.job_id = job_name,
                              !.code = out.code, !.snap = procs, !.jobs = started,
                              !.info = JobInfo(job_name, remote_log(job_name), FALSE, pid)]

\* get_status(target, job_id)
get_status(job_id, ok) ==
    LET pattern == job_pattern(job_id)
        table   == procs \cup Transient(GetStatusCmd(job_id), nextPid)
        out     == IF ok THEN ExecOk(PgrepHead1(pattern, table)) ELSE SshFailure
    IN
    /\ lastOp' = [NoOp EXCEPT !.op = "get_status", !.job_id = job_id,
                              !.code = out.code, !.snap = procs, !.jobs = started,
                              !.status = DirectStatusOf(job_id, out)]
    /\ UNCHANGED <<procs, nextPid, started>>

\* variant: only the answer not_running makes kill_job return False
KillJobResult_UnlessNotRunning(out) == Strip(out.stdout) # "not_running"

\* kill_job, after the remote command has answered: the value returned
KillJobResult(out) ==
    LET result == Strip(out.stdout) IN
    IF result = "killed" THEN TRUE
    ELSE IF result = "not_running" THEN FALSE
    ELSE FALSE

\* kill_job(target, job_id); `delivered`: whether kill "$pid" succeeds.
\* A failed transport (ok = FALSE) is one where the command never ran.
kill_job(job_id, ok, delivered) ==
    LET pattern == job_pattern(job_id)
        table   == procs \cup Transient(KillJobCmd(job_id), nextPid)
        found   == Strip(PgrepHead1(pattern, table))
        victim  == IF ok /\ found # "" THEN ProcOf(ParseInt(found), table) ELSE NoProc
        stdout  == IF ~ok THEN ""
                   ELSE IF found = "" THEN "not_running\n"
                   ELSE IF delivered THEN "killed\n" ELSE "failed\n"
        out     == IF ok THEN ExecOk(stdout) ELSE SshFailure
    IN
    /\ procs' = IF ok /\ found # "" /\ delivered
                THEN {IF p.ppid = victim.pid THEN [p EXCEPT !.ppid = 1] ELSE p :
                          p \in procs \ {victim}}
                ELSE procs
    /\ lastOp' = [NoOp EXCEPT !.op = "kill_job", !.job_id = job_id,
                              !.code = IF ok THEN 0 ELSE 255, !.snap = procs,
                              !.jobs = started,
                              !.ret = KillJobResult(out),
                              !.sig = (ok /\ found # ""),
                              !.target = IF delivered THEN victim ELSE NoProc]
    /\ UNCHANGED <<nextPid, started>>

\* a remote process ends by itself; a shell waits for its child first
ProcExit(p) ==
    /\ p \in procs
    /\ \A q \in procs : q.ppid # p.pid
    /\ procs' = procs \ {p}
    /\ UNCHANGED <<nextPid, started, lastOp>>

InitProc ==
    /\ IdleWatch
    /\ IdleMulti
    /\ IdleProc
    /\ IdleSlurm
    /\ IdleQuote
    /\ IdleContext
    /\ IdleBatch
    /\ IdleFg
    /\ IdleConn
    /\ IdleLog
    /\ IdleCli

NextProc ==
    \/ (\E j \in JobIds : \E copied, ok \in BOOLEAN : run_detached(j, copied, ok)) /\ UNCHANGED <<wvars, mvars, svars, qvars, cvars, bvars, fvars, nvars, lvars, avars>>
    \/ (\E j \in JobIds : \E c \in Cmds : \E ok \in BOOLEAN : exec_detached(j, c, ok))
           /\ UNCHANGED <<wvars, mvars, svars, qvars, cvars, bvars, fvars, nvars, lvars, avars>>
    \/ (\E j \in JobIds : \E ok \in BOOLEAN : get_status(j, ok)) /\ UNCHANGED <<wvars, mvars, svars, qvars, cvars, bvars, fvars, nvars, lvars, avars>>
    \/ (\E j \in JobIds : \E ok, delivered \in BOOLEAN : kill_job(j, ok, delivered))
           /\ UNCHANGED <<wvars, mvars, svars, qvars, cvars, bvars, fvars, nvars, lvars, avars>>
    \/ (\E p \in procs : ProcExit(p)) /\ UNCHANGED <<wvars, mvars, svars, qvars, cvars, bvars, fvars, nvars, lvars, avars>>

SpecProc == InitProc /\ [][NextProc]_vars

\* sub occurs in s, character for character
Contains(s, sub) ==
    \E k \in 1..(Len(s) - Len(sub) + 1) : SubSeq(s, k, k + Len(sub) - 1) = sub

\* ---------------------------------------------------------------------
\* SlurmExecutor: detached submission (execution/slurm.py)
\* ---------------------------------------------------------------------
\* s without its "_" characters
RECURSIVE DropUnderscores(_)
DropUnderscores(s) ==
    IF Len(s) = 0 THEN ""
    ELSE (IF Ch(s, 1) = "_" THEN "" ELSE Ch(s, 1)) \o DropUnderscores(SubSeq(s, 2, Len(s)))

\* the digits of the literal int() is given, after whitespace and sign
IntBody(s) ==
    LET t == Strip(s) IN
    IF Len(t) > 0 /\ Ch(t, 1) \in {"+", "-"} THEN SubSeq(t, 2, Len(t)) ELSE t

\* int(s) does not raise ValueError: optional sign, decimal digits, single
\* underscores between digits, surrounding whitespace
PyIntOk(s) ==
    LET b == IntBody(s) IN
    /\ Len(b) > 0
    /\ CharsOf(b) \subseteq (Range(Digits) \cup {"_"})
    /\ Ch(b, 1) # "_"
    /\ Ch(b, Len(b)) # "_"
    /\ ~Contains(b, "__")

\* int(s) where it does not raise
PyInt(s) ==
    LET t == Strip(s)
        v == ParseInt(DropUnderscores(IntBody(s)))
    IN  IF Len(t) > 0 /\ Ch(t, 1) = "-" THEN 0 - v ELSE v

\* what `echo $HOME` answers
HomeAnswers == {"ok", "empty", "fail"}

HomeWire(ans) ==
    CASE ans = "ok"    -> ExecOk("/home/u\n")
      [] ans = "empty" -> ExecOk("\n")
      [] OTHER         -> SshFailure

\* what `sbatch --parsable <file>` answers
\*   "ok"       the job id                       (exit 0)
\*   "cluster"  id;cluster, on a federated setup (exit 0)
\*   "text"     the non-parsable sentence        (exit 0)
\*   "empty"    nothing                          (exit 0)
\*   "reject"   the scheduler refused the job    (exit 1, nothing on stdout)
\*   "late"     the job id, but a non-zero exit code
\*   "fail"     the transport failed
SbatchAnswers == {"ok", "cluster", "text", "empty", "reject", "late", "fail"}

\* the answers after which the scheduler holds the job
SbatchAccepted == {"ok", "cluster", "text", "late"}

SbatchWire(ans, id) ==
    CASE ans = "ok"      -> ExecOk(IntToStr(id) \o "\n")
      [] ans = "cluster" -> ExecOk(IntToStr(id) \o ";cluster\n")
      [] ans = "text"    -> ExecOk("Submitted batch job " \o IntToStr(id) \o "\n")
      [] ans = "empty"   -> ExecOk("")
      [] ans = "reject"  -> [code |-> 1, stdout |-> ""]
      [] ans = "late"    -> [code |-> 1, stdout |-> IntToStr(id) \o "\n"]
      [] OTHER           -> SshFailure

slurm_remote_script(home, job_name) == home \o "/.rex/rex-" \o job_name \o ".py"

slurm_remote_sbatch(home, job_name) == home \o "/.rex/rex-" \o job_name \o ".sbatch"

slurm_remote_log(home, job_name) == home \o "/.rex/rex-" \o job_name \o ".log"

\* variant: the submission test without `code != 0`
SubmitOutcome_NoCodeTest(job_name, log, out) ==
    IF Strip(out.stdout) = ""
    THEN [info |-> SlurmJobInfo(job_name, log, None), warned |-> TRUE, header |-> FALSE]
    ELSE IF ~PyIntOk(Strip(out.stdout))
    THEN [info |-> SlurmJobInfo(job_name, log, None), warned |-> TRUE, header |-> FALSE]
    ELSE [info |-> SlurmJobInfo(job_name, log, PyInt(Strip(out.stdout))),
          warned |-> FALSE, header |-> TRUE]

\* run_detached / exec_detached from the sbatch answer on: the JobInfo
\* returned, whether warn() was called, whether the header write is sent
SubmitOutcome(job_name, log, out) ==
    IF out.code # 0 \/ Strip(out.stdout) = ""
    THEN [info |-> SlurmJobInfo(job_name, log, None), warned |-> TRUE, header |-> FALSE]
    ELSE IF ~PyIntOk(Strip(out.stdout))
    THEN [info |-> SlurmJobInfo(job_name, log, None), warned |-> TRUE, header |-> FALSE]
    ELSE [info |-> SlurmJobInfo(job_name, log, PyInt(Strip(out.stdout))),
          warned |-> FALSE, header |-> TRUE]

\* the part of a submission both entry points share.  `files` are the remote
\* files the entry point writes with _ssh_write, in order; `written[i]` tells
\* whether the i-th write succeeds; `hdr` whether the header write arrives.
Submit(op, job_name, home, files, written, sb, hdr) ==
    LET hout        == HomeWire(home)
        remote_home == Strip(hout.stdout)
        log         == slurm_remote_log(remote_home, job_name)
        firstBad    == IF \E i \in 1..Len(written) : ~written[i]
                       THEN CHOOSE i \in 1..Len(written) :
                                ~written[i] /\ \A k \in 1..(i - 1) : written[k]
                       ELSE Len(written) + 1
        wrote       == {files[i] : i \in 1..(firstBad - 1)}
        out         == SbatchWire(sb, nextSlurmId)
        res         == SubmitOutcome(job_name, log, out)
        base        == [NoSlurmOp EXCEPT !.op = op, !.job_id = job_name,
                                         !.queue = queue, !.history = history,
                                         !.jobs = submitted]
    IN
    /\ job_name \notin submitted
    /\ UNCHANGED history
    /\ IF remote_home = ""
       THEN \* warn("Failed to get remote home directory"); return
            /\ sOp' = [base EXCEPT !.code = hout.code, !.warned = TRUE,
                                   !.failed = (home = "fail"), !.out = hout,
                                   !.info = SlurmJobInfo(job_name, "", None)]
            /\ UNCHANGED <<queue, remote, logHeader, submitted, nextSlurmId>>
       ELSE IF firstBad <= Len(written)
       THEN \* _ssh_write raises SSHError; nothing catches it
            /\ sOp' = [base EXCEPT !.code = 255, !.raised = "SSHError", !.failed = TRUE]
            /\ remote' = remote \cup wrote
            /\ UNCHANGED <<queue, logHeader, submitted, nextSlurmId>>
       ELSE /\ remote' = remote \cup wrote
            /\ submitted' = submitted \cup {job_name}
            /\ IF sb \in SbatchAccepted
               THEN /\ queue' = (job_name :> [state |-> "PENDING", slurm_id |-> nextSlurmId])
                                    @@ queue
                    /\ nextSlurmId' = nextSlurmId + 1
               ELSE UNCHANGED <<queue, nextSlurmId>>
            /\ logHeader' = IF res.header /\ hdr THEN logHeader \cup {job_name}
                            ELSE logHeader
            /\ sOp' = [base EXCEPT !.code = out.code, !.out = out,
                                   !.warned = res.warned,
                                   !.failed = (sb = "fail"),
                                   !.info = res.info]

\* SlurmExecutor.run_detached(ctx, script_path, args, job_name)
slurm_run_detached(job_name, home, w1, w2, sb, hdr) ==
    LET h == Strip(HomeWire(home).stdout) IN
    Submit("run_detached", job_name, home,
           <<slurm_remote_script(h, job_name), slurm_remote_sbatch(h, job_name)>>,
           <<w1, w2>>, sb, hdr)

\* SlurmExecutor.exec_detached(ctx, cmd, job_name)
slurm_exec_detached(job_name, home, w, sb, hdr) ==
    LET h == Strip(HomeWire(home).stdout) IN
    Submit("exec_detached", job_name, home,
           <<slurm_remote_sbatch(h, job_name)>>, <<w>>, sb, hdr)

\* ---------------------------------------------------------------------
\* The scheduler, and what squeue prints about it
\* ---------------------------------------------------------------------
\* final states the accounting database records
FinalStates == {"COMPLETED", "FAILED", "CANCELLED", "TIMEOUT", "NODE_FAIL"}

\* a pending job is given its nodes
SchedStart(j) ==
    /\ j \in DOMAIN queue
    /\ queue[j].state = "PENDING"
    /\ queue' = [queue EXCEPT ![j].state = "RUNNING"]
    /\ UNCHANGED <<history, remote, logHeader, submitted, nextSlurmId, sOp>>

\* a running job ends; it stays in the live queue while its nodes clean up
SchedFinish(j, final) ==
    /\ j \in DOMAIN queue
    /\ queue[j].state = "RUNNING"
    /\ queue' = [queue EXCEPT ![j].state = "COMPLETING"]
    /\ history' = (j :> final) @@ history
    /\ UNCHANGED <<remote, logHeader, submitted, nextSlurmId, sOp>>

\* a job leaves the live queue: after completing, or cancelled while pending
SchedLeave(j) ==
    /\ j \in DOMAIN queue
    /\ queue[j].state \in {"PENDING", "COMPLETING"}
    /\ queue' = [k \in DOMAIN queue \ {j} |-> queue[k]]
    /\ history' = IF queue[j].state = "PENDING" THEN (j :> "CANCELLED") @@ history
                  ELSE history
    /\ UNCHANGED <<remote, logHeader, submitted, nextSlurmId, sOp>>

RECURSIVE Spaces(_)
Spaces(n) == IF n <= 0 THEN "" ELSE " " \o Spaces(n - 1)

\* a squeue field `%.<w>X`: right-justified in w columns, cut to w columns
SqueueField(s, w) ==
    IF Len(s) >= w THEN SubSeq(s, 1, w) ELSE Spaces(w - Len(s)) \o s

\* one row of squeue -o '%.10i %.30j %.8T %.10M'
SqueueRow(j, q) ==
    SqueueField(IntToStr(q[j].slurm_id), 10) \o " " \o SqueueField("rex-" \o j, 30) \o " "
        \o SqueueField(q[j].state, 8) \o " " \o SqueueField("0:01", 10) \o "\n"

\* squeue -u $USER -o ... | grep rex : the rows of the jobs of rex
RECURSIVE SqueueRows(_, _)
SqueueRows(js, q) ==
    IF js = {} THEN ""
    ELSE LET j == CHOOSE x \in js : \A y \in js : q[x].slurm_id <= q[y].slurm_id
         IN  SqueueRow(j, q) \o SqueueRows(js \ {j}, q)

\* squeue -u $USER -n rex-<job> -h -o %T
SqueueState(job_id, q) ==
    IF job_id \in DOMAIN q THEN q[job_id].state \o "\n" ELSE ""

\* s.split("\n")
RECURSIVE SplitLines(_)
SplitLines(s) ==
    IF \E i \in 1..Len(s) : Ch(s, i) = "\n"
    THEN LET i == CHOOSE k \in 1..Len(s) :
                      Ch(s, k) = "\n" /\ \A m \in 1..(k - 1) : Ch(s, m) # "\n"
         IN  <<SubSeq(s, 1, i - 1)>> \o SplitLines(SubSeq(s, i + 1, Len(s)))
    ELSE <<s>>

\* s.split(): the maximal runs of non-whitespace characters
RECURSIVE SplitFields(_)
SplitFields(s) ==
    LET t == LStrip(s) IN
    IF Len(t) = 0 THEN <<>>
    ELSE LET e == IF \E i \in 1..Len(t) : Ch(t, i) \in Whitespace
                  THEN CHOOSE k \in 1..Len(t) :
                           Ch(t, k) \in Whitespace /\ \A m \in 1..(k - 1) : Ch(t, m) \notin Whitespace
                  ELSE Len(t) + 1
         IN  <<SubSeq(t, 1, e - 1)>> \o SplitFields(SubSeq(t, e, Len(t)))

StartsWith(s, pre) == Len(s) >= Len(pre) /\ SubSeq(s, 1, Len(pre)) = pre

\* s.replace(old, "")
RECURSIVE Remove(_, _)
Remove(s, old) ==
    IF Len(s) = 0 THEN ""
    ELSE IF StartsWith(s, old) THEN Remove(SubSeq(s, Len(old) + 1, Len(s)), old)
    ELSE Ch(s, 1) \o Remove(SubSeq(s, 2, Len(s)), old)

\* JobStatus as the SLURM backend fills it
SlurmJobStatus(job_id, status, slurm_id) ==
    [job_id |-> job_id, status |-> status, pid |-> None, slurm_id |-> slurm_id]

\* the body of the for loop of list_jobs: the JobStatus a line adds, if any
ListRow(line) ==
    LET parts == SplitFields(line) IN
    IF line = "" \/ ~Contains(line, "rex") THEN <<>>
    ELSE IF Len(parts) < 3 THEN <<>>
    ELSE IF ~PyIntOk(parts[1]) THEN <<>>
    ELSE LET name   == parts[2]
             status == ToLower(parts[3])
             job_id == IF StartsWith(name, "rex-") THEN Remove(name, "rex-") ELSE name
         IN  <<SlurmJobStatus(job_id,
                              IF status \in {"pending", "running"} THEN "running" ELSE status,
                              PyInt(parts[1]))>>

RECURSIVE ListRows(_)
ListRows(rows) ==
    IF Len(rows) = 0 THEN <<>>
    ELSE ListRow(rows[1]) \o ListRows(SubSeq(rows, 2, Len(rows)))

\* SlurmExecutor.list_jobs(target)
slurm_list_jobs(ok) ==
    LET out == IF ok THEN ExecOk(SqueueRows(DOMAIN queue, queue)) ELSE SshFailure IN
    /\ sOp' = [NoSlurmOp EXCEPT !.op = "list_jobs", !.code = out.code, !.out = out,
                                !.queue = queue, !.history = history,
                                !.failed = ~ok,
                                !.jobs = ListRows(SplitLines(Strip(out.stdout)))]
    /\ UNCHANGED <<queue, history, remote, logHeader, submitted, nextSlurmId>>

\* SlurmExecutor.get_status(target, job_id)
slurm_get_status(job_id, ok) ==
    LET out == IF ok THEN ExecOk(SqueueState(job_id, queue)) ELSE SshFailure IN
    /\ sOp' = [NoSlurmOp EXCEPT !.op = "get_status", !.job_id = job_id,
                                !.code = out.code, !.out = out,
                                !.queue = queue, !.history = history,
                                !.failed = ~ok,
                                !.status = SlurmStatusOf(job_id, out)]
    /\ UNCHANGED <<queue, history, remote, logHeader, submitted, nextSlurmId>>

InitSlurm ==
    /\ IdleWatch
    /\ IdleMulti
    /\ IdleProc
    /\ IdleSlurm
    /\ IdleQuote
    /\ IdleContext
    /\ IdleBatch
    /\ IdleFg
    /\ IdleConn
    /\ IdleLog
    /\ IdleCli

\* submissions under every outcome of every remote step
NextSubmit ==
    \/ (\E j \in JobIds : \E home \in HomeAnswers : \E w1, w2, hdr \in BOOLEAN :
        \E sb \in SbatchAnswers : slurm_run_detached(j, home, w1, w2, sb, hdr))
           /\ UNCHANGED <<wvars, mvars, pvars, qvars, cvars, bvars, fvars, nvars, lvars, avars>>
    \/ (\E j \in JobIds : \E home \in HomeAnswers : \E w, hdr \in BOOLEAN :
        \E sb \in SbatchAnswers : slurm_exec_detached(j, home, w, sb, hdr))
           /\ UNCHANGED <<wvars, mvars, pvars, qvars, cvars, bvars, fvars, nvars, lvars, avars>>

SpecSubmit == InitSlurm /\ [][NextSubmit]_vars

\* the life of submitted jobs in the scheduler, and the queries about them;
\* the submissions here are the ones the scheduler accepted
NextSlurm ==
    \/ (\E j \in JobIds : slurm_run_detached(j, "ok", TRUE, TRUE, "ok", TRUE))
           /\ UNCHANGED <<wvars, mvars, pvars, qvars, cvars, bvars, fvars, nvars, lvars, avars>>
    \/ (\E j \in JobIds : slurm_exec_detached(j, "ok", TRUE, "cluster", TRUE))
           /\ UNCHANGED <<wvars, mvars, pvars, qvars, cvars, bvars, fvars, nvars, lvars, avars>>
    \/ (\E j \in JobIds : SchedStart(j)) /\ UNCHANGED <<wvars, mvars, pvars, qvars, cvars, bvars, fvars, nvars, lvars, avars>>
    \/ (\E j \in JobIds : \E f \in FinalStates : SchedFinish(j, f))
           /\ UNCHANGED <<wvars, mvars, pvars, qvars, cvars, bvars, fvars, nvars, lvars, avars>>
    \/ (\E j \in JobIds : SchedLeave(j)) /\ UNCHANGED <<wvars, mvars, pvars, qvars, cvars, bvars, fvars, nvars, lvars, avars>>
    \/ (\E ok \in BOOLEAN : slurm_list_jobs(ok)) /\ UNCHANGED <<wvars, mvars, pvars, qvars, cvars, bvars, fvars, nvars, lvars, avars>>
    \/ (\E j \in JobIds : \E ok \in BOOLEAN : slurm_get_status(j, ok))
           /\ UNCHANGED <<wvars, mvars, pvars, qvars, cvars, bvars, fvars, nvars, lvars, avars>>

SpecSlurm == InitSlurm /\ [][NextSlurm]_vars

\* ---------------------------------------------------------------------
\* Shell quoting (execution/script.py, ssh/executor.py)
\* ---------------------------------------------------------------------
\* the grave accent.  A TLA+ string cannot hold that character, so it is
\* written as a circumflex here; no value of the model holds a circumflex
\* of its own.
Backtick == "^"

NameStart == Range(Upper) \cup Range(Lower) \cup {"_"}

NameChars == NameStart \cup Range(Digits)

\* the character of s at position i, "" past the end
At(s, i) == IF i >= 1 /\ i <= Len(s) THEN Ch(s, i) ELSE ""

\* re.search(r'\$[A-Za-z_][A-Za-z0-9_]*|\$\{[^}]+\}', value) finds a match
\* that starts at position i
VarRefAt(value, i) ==
    /\ At(value, i) = "$"
    /\ \/ At(value, i + 1) \in NameStart
       \/ /\ At(value, i + 1) = "{"
          /\ At(value, i + 2) \notin {"", "}"}
          /\ \E j \in (i + 3)..Len(value) : Ch(value, j) = "}"

HasVarRef(value) == \E i \in 1..Len(value) : VarRefAt(value, i)

\* s.replace(old, new): the occurrences of old, left to right, not overlapping
RECURSIVE Replace(_, _, _)
Replace(s, old, new) ==
    IF Len(s) = 0 THEN ""
    ELSE IF StartsWith(s, old) THEN new \o Replace(SubSeq(s, Len(old) + 1, Len(s)), old, new)
    ELSE Ch(s, 1) \o Replace(SubSeq(s, 2, Len(s)), old, new)

\* the characters shlex.quote leaves bare: [\w@%+=:,./-] with re.ASCII
ShlexSafe == NameChars \cup {"@", "%", "+", "=", ":", ",", ".", "/", "-"}

\* variant: single quotes inside the value are not escaped
shlex_quote_NoEscape(s) ==
    IF s = "" THEN "''"
    ELSE IF CharsOf(s) \subseteq ShlexSafe THEN s
    ELSE "'" \o s \o "'"

\* shlex.quote
shlex_quote(s) ==
    IF s = "" THEN "''"
    ELSE IF CharsOf(s) \subseteq ShlexSafe THEN s
    ELSE "'" \o Replace(s, "'", "'\"'\"'") \o "'"

\* variant: `$(` is left as it is
quote_with_expansion_NoDollarParen(value) ==
    IF HasVarRef(value)
    THEN LET e1 == Replace(value, "\\", "\\\\")
             e2 == Replace(e1, "\"", "\\\"")
             e3 == Replace(e2, Backtick, "\\" \o Backtick)
         IN  "\"" \o e3 \o "\""
    ELSE shlex_quote(value)

\* quote_with_expansion
quote_with_expansion(value) ==
    IF HasVarRef(value)
    THEN LET e1 == Replace(value, "\\", "\\\\")
             e2 == Replace(e1, "\"", "\\\"")
             e3 == Replace(e2, Backtick, "\\" \o Backtick)
             e4 == Replace(e3, "$(", "\\$(")
         IN  "\"" \o e4 \o "\""
    ELSE shlex_quote(value)

\* ---------------------------------------------------------------------
\* The remote shell reading a piece of script text (POSIX word parsing)
\* ---------------------------------------------------------------------
\* characters that are not literal when they stand unquoted in a word
ShellActive == {"$", Backtick, ";", "&", "|", "(", ")", "<", ">", "*", "?", "[", "]",
                "#", "~", "{", "}", "!"}

\* the characters a backslash escapes between double quotes
DqEscapable == {"$", Backtick, "\"", "\\"}

StartRead == [mode |-> "unq", cur |-> "", inword |-> FALSE, words |-> <<>>,
              clean |-> TRUE, expansions |-> {}, cmdsub |-> FALSE, depth |-> 0]

\* the shell reads text from position i on.  `expansions` are the
\* positions of the `$` that start a parameter expansion, `cmdsub` tells
\* whether a command substitution starts anywhere, `clean` whether every
\* character was taken literally or as a quote and every brace was closed.
RECURSIVE ShellScan(_, _, _)
ShellScan(t, i, st) ==
    IF i > Len(t)
    THEN [words  |-> IF st.inword THEN Append(st.words, st.cur) ELSE st.words,
          closed |-> st.mode = "unq",
          clean  |-> st.clean /\ st.mode \in {"unq", "sq", "dq"},
          expansions |-> st.expansions,
          cmdsub |-> st.cmdsub]
    ELSE
    LET c == Ch(t, i)
        n == At(t, i + 1)
    IN
    CASE st.mode = "unq" ->
           IF c \in Whitespace
           THEN ShellScan(t, i + 1,
                    [st EXCEPT !.words = IF st.inword THEN Append(st.words, st.cur) ELSE @,
                               !.cur = "", !.inword = FALSE])
           ELSE IF c = "'" THEN ShellScan(t, i + 1, [st EXCEPT !.mode = "sq", !.inword = TRUE])
           ELSE IF c = "\"" THEN ShellScan(t, i + 1, [st EXCEPT !.mode = "dq", !.inword = TRUE])
           ELSE IF c = "\\"
           THEN IF n = "\n" THEN ShellScan(t, i + 2, st)
                ELSE ShellScan(t, i + 2, [st EXCEPT !.cur = @ \o n, !.inword = TRUE,
                                                    !.clean = @ /\ n # ""])
           ELSE ShellScan(t, i + 1,
                    [st EXCEPT !.cur = @ \o c, !.inword = TRUE,
                               !.clean = @ /\ c \notin ShellActive,
                               !.cmdsub = @ \/ c = Backtick \/ (c = "$" /\ n = "(")])
      [] st.mode = "sq" ->
           IF c = "'" THEN ShellScan(t, i + 1, [st EXCEPT !.mode = "unq"])
           ELSE ShellScan(t, i + 1, [st EXCEPT !.cur = @ \o c])
      [] st.mode = "dq" ->
           IF c = "\"" THEN ShellScan(t, i + 1, [st EXCEPT !.mode = "unq"])
           ELSE IF c = "\\"
           THEN IF n \in DqEscapable
                THEN ShellScan(t, i + 2, [st EXCEPT !.cur = @ \o n])
                ELSE IF n = "\n" THEN ShellScan(t, i + 2, st)
                ELSE ShellScan(t, i + 1, [st EXCEPT !.cur = @ \o c])
           ELSE IF c = Backtick THEN ShellScan(t, i + 1, [st EXCEPT !.cmdsub = TRUE])
           ELSE IF c = "$" /\ n = "(" THEN ShellScan(t, i + 2, [st EXCEPT !.cmdsub = TRUE])
           ELSE IF c = "$" /\ n = "{"
           THEN ShellScan(t, i + 2, [st EXCEPT !.mode = "brace", !.depth = 1,
                                                !.expansions = @ \cup {i}])
           ELSE IF c = "$" /\ n \in NameStart
           THEN ShellScan(t, i + 1, [st EXCEPT !.expansions = @ \cup {i}])
           ELSE ShellScan(t, i + 1, [st EXCEPT !.cur = @ \o c])
      [] OTHER ->
           \* inside ${...} between double quotes
           IF c = "}"
           THEN ShellScan(t, i + 1, [st EXCEPT !.depth = @ - 1,
                                                !.mode = IF st.depth = 1 THEN "dq" ELSE "brace"])
           ELSE IF c = "\\" THEN ShellScan(t, i + 2, st)
           ELSE IF c = Backtick THEN ShellScan(t, i + 1, [st EXCEPT !.cmdsub = TRUE])
           ELSE IF c = "$" /\ n = "(" THEN ShellScan(t, i + 2, [st EXCEPT !.cmdsub = TRUE])
           ELSE IF c = "$" /\ n = "{"
           THEN ShellScan(t, i + 2, [st EXCEPT !.depth = @ + 1, !.expansions = @ \cup {i}])
           ELSE IF c = "$" /\ n \in NameStart
           THEN ShellScan(t, i + 1, [st EXCEPT !.expansions = @ \cup {i}])
           ELSE ShellScan(t, i + 1, [st EXCEPT !.clean = @ /\ c # "\""])

\* the shell reads text as the words of a command
ShellRead(t) == ShellScan(t, 1, StartRead)

\* ---------------------------------------------------------------------
\* Quoting a value, then the remote shell reading the result
\* ---------------------------------------------------------------------
MaxValueLen == 3

\* the characters the values are made of
QuoteChars == {"a", "$", "{", "}", "(", "'", "\"", "\\", Backtick, " ", "\n"}

RECURSIVE StringsUpTo(_)
StringsUpTo(n) ==
    IF n = 0 THEN {""}
    ELSE LET shorter == StringsUpTo(n - 1)
         IN  shorter \cup {s \o c : s \in shorter, c \in QuoteChars}

\* longer values, of the kind the tests use
PlainValue == "it's \"a\" \\ " \o Backtick \o "b" \o Backtick \o "\n$(c)"

RefValue == "${a}" \o Backtick \o "b" \o Backtick \o "$(c)\\\""

SampleValues == {PlainValue, RefValue, "$HOME/bin", "${HOME:-$(id)}", "\\$a $(b)", "a=b:/c"}

QuoteValues == StringsUpTo(MaxValueLen) \cup SampleValues

InitQuote ==
    /\ IdleWatch
    /\ IdleMulti
    /\ IdleProc
    /\ IdleSlurm
    /\ IdleContext
    /\ IdleBatch
    /\ IdleFg
    /\ IdleConn
    /\ IdleLog
    /\ IdleCli
    /\ qValue \in QuoteValues
    /\ qFn = "none"
    /\ qPc = "value"
    /\ qOut = ""
    /\ qRead = NoRead

\* export KEY=<quote_with_expansion(value)>
QuoteWithExpansion ==
    /\ qPc = "value"
    /\ qFn' = "quote_with_expansion"
    /\ qOut' = quote_with_expansion(qValue)
    /\ qPc' = "quoted"
    /\ UNCHANGED <<qValue, qRead>>

\* bash --norc --noprofile -c <_shell_quote(cmd)>
ShellQuote ==
    /\ qPc = "value"
    /\ qFn' = "_shell_quote"
    /\ qOut' = _shell_quote(qValue)
    /\ qPc' = "quoted"
    /\ UNCHANGED <<qValue, qRead>>

\* the remote shell reads the quoted text as an argument
RemoteRead ==
    /\ qPc = "quoted"
    /\ qRead' = ShellRead(qOut)
    /\ qPc' = "read"
    /\ UNCHANGED <<qValue, qFn, qOut>>

NextQuote ==
    \/ QuoteWithExpansion /\ UNCHANGED <<wvars, mvars, pvars, svars, cvars, bvars, fvars, nvars, lvars, avars>>
    \/ ShellQuote /\ UNCHANGED <<wvars, mvars, pvars, svars, cvars, bvars, fvars, nvars, lvars, avars>>
    \/ RemoteRead /\ UNCHANGED <<wvars, mvars, pvars, svars, cvars, bvars, fvars, nvars, lvars, avars>>

SpecQuote == InitQuote /\ [][NextQuote]_vars

\* ---------------------------------------------------------------------
\* ScriptBuilder and build_context_commands (execution/script.py)
\* ---------------------------------------------------------------------
\* sep.join(parts)
RECURSIVE Join(_, _)
Join(parts, sep) ==
    IF Len(parts) = 0 THEN ""
    ELSE IF Len(parts) = 1 THEN parts[1]
    ELSE parts[1] \o sep \o Join(SubSeq(parts, 2, Len(parts)), sep)

\* ScriptBuilder.shebang: self._lines.insert(0, ...)
shebang(ls, login) == <<IF login THEN "#!/bin/bash -l" ELSE "#!/bin/bash">> \o ls

\* ScriptBuilder.module_load
module_load(ls, modules) ==
    IF Len(modules) > 0 THEN Append(ls, "module load " \o Join(modules, " ")) ELSE ls

\* ScriptBuilder.export
export(ls, key, value) == Append(ls, "export " \o key \o "=" \o quote_with_expansion(value))

\* ScriptBuilder.cd
cd(ls, path) == Append(ls, "cd " \o shlex_quote(path))

\* ScriptBuilder.source
source(ls, path) == Append(ls, "source " \o shlex_quote(path))

\* ScriptBuilder.run_command
run_command(ls, cmd) == Append(ls, cmd)

\* `for key, value in ctx.env.items(): self.export(key, value)`; env is the
\* dict in insertion order, a sequence of <<key, value>>
RECURSIVE ExportAll(_, _)
ExportAll(ls, env) ==
    IF Len(env) = 0 THEN ls
    ELSE ExportAll(export(ls, env[1][1], env[1][2]), SubSeq(env, 2, Len(env)))

\* variant: the virtualenv is activated before the exports
apply_context_SourceFirst(ls, c, mkdir) ==
    LET l1 == IF Len(c.modules) > 0 THEN module_load(ls, c.modules) ELSE ls
        l2 == IF Truthy(c.code_dir)
              THEN source(l1, c.code_dir[1] \o "/.venv/bin/activate") ELSE l1
        l3 == ExportAll(l2, c.env)
    IN  IF Truthy(c.run_dir)
        THEN IF mkdir
             THEN run_command(l3, "mkdir -p " \o shlex_quote(c.run_dir[1]) \o " && cd "
                                      \o shlex_quote(c.run_dir[1]))
             ELSE cd(l3, c.run_dir[1])
        ELSE l3

\* ScriptBuilder.apply_context
apply_context(ls, c, mkdir) ==
    LET l1 == IF Len(c.modules) > 0 THEN module_load(ls, c.modules) ELSE ls
        l2 == ExportAll(l1, c.env)
        l3 == IF Truthy(c.code_dir)
              THEN source(l2, c.code_dir[1] \o "/.venv/bin/activate") ELSE l2
    IN  IF Truthy(c.run_dir)
        THEN IF mkdir
             THEN run_command(l3, "mkdir -p " \o shlex_quote(c.run_dir[1]) \o " && cd "
                                      \o shlex_quote(c.run_dir[1]))
             ELSE cd(l3, c.run_dir[1])
        ELSE l3

\* the loop over ctx.env.items() of build_context_commands
RECURSIVE ExportCommands(_)
ExportCommands(env) ==
    IF Len(env) = 0 THEN <<>>
    ELSE <<"export " \o env[1][1] \o "=" \o quote_with_expansion(env[1][2])>>
             \o ExportCommands(SubSeq(env, 2, Len(env)))

\* build_context_commands
build_context_commands(c, mkdir) ==
    (IF Len(c.modules) > 0 THEN <<"module load " \o Join(c.modules, " ")>> ELSE <<>>)
    \o ExportCommands(c.env)
    \o (IF Truthy(c.code_dir)
        THEN <<"source " \o shlex_quote(c.code_dir[1] \o "/.venv/bin/activate")>>
        ELSE <<>>)
    \o (IF Truthy(c.run_dir)
        THEN IF mkdir
             THEN <<"mkdir -p " \o shlex_quote(c.run_dir[1]) \o " && cd "
                        \o shlex_quote(c.run_dir[1])>>
             ELSE <<"cd " \o shlex_quote(c.run_dir[1])>>
        ELSE <<>>)

\* the contexts a caller builds from the project configuration
SampleModules == {<<>>, <<"gcc">>, <<"gcc", "cuda/12">>}

SampleEnvs == {<<>>, <<<<"A", "1">>>>, <<<<"P", "$HOME/bin">>, <<"B", "it's">>>>}

SampleDirs == {NoStr, Some(""), Some("/data/x"), Some("/my dir")}

Contexts ==
    {ExecutionContext(m, cdir, rdir, e) :
        m \in SampleModules, cdir \in SampleDirs, rdir \in SampleDirs, e \in SampleEnvs}

InitContext ==
    /\ IdleWatch
    /\ IdleMulti
    /\ IdleProc
    /\ IdleSlurm
    /\ IdleQuote
    /\ IdleBatch
    /\ IdleFg
    /\ IdleConn
    /\ IdleLog
    /\ IdleCli
    /\ ctx \in Contexts
    /\ mkdir_run_dir \in BOOLEAN
    /\ cPc = "new"
    /\ lines = <<>>
    /\ commands = <<>>

\* ScriptBuilder().shebang(login)
Shebang(login) ==
    /\ cPc = "new"
    /\ lines' = shebang(lines, login)
    /\ cPc' = "shebang"
    /\ UNCHANGED <<ctx, mkdir_run_dir, commands>>

\* builder.apply_context(ctx, mkdir_run_dir=...)
ApplyContext ==
    /\ cPc = "shebang"
    /\ lines' = apply_context(lines, ctx, mkdir_run_dir)
    /\ cPc' = "applied"
    /\ UNCHANGED <<ctx, mkdir_run_dir, commands>>

\* build_context_commands(ctx, mkdir_run_dir=...)
BuildContextCommands ==
    /\ cPc = "applied"
    /\ commands' = build_context_commands(ctx, mkdir_run_dir)
    /\ cPc' = "built"
    /\ UNCHANGED <<ctx, mkdir_run_dir, lines>>

NextContext ==
    \/ (\E login \in BOOLEAN : Shebang(login)) /\ UNCHANGED <<wvars, mvars, pvars, svars, qvars, bvars, fvars, nvars, lvars, avars>>
    \/ ApplyContext /\ UNCHANGED <<wvars, mvars, pvars, svars, qvars, bvars, fvars, nvars, lvars, avars>>
    \/ BuildContextCommands /\ UNCHANGED <<wvars, mvars, pvars, svars, qvars, bvars, fvars, nvars, lvars, avars>>

SpecContext == InitContext /\ [][NextContext]_vars

\* ---------------------------------------------------------------------
\* SbatchBuilder and the batch script of a detached submission
\* (execution/script.py, execution/slurm.py)
\* ---------------------------------------------------------------------
\* SlurmExecutor.OPTION_MAPPINGS: (attribute_name, slurm_option_name)
OPTION_MAPPINGS ==
    << <<"partition", "partition">>, <<"gres", "gres">>, <<"time", "time">>,
       <<"cpus", "cpus-per-task">>, <<"mem", "mem">>,
       <<"constraint", "constraint">>, <<"prefer", "prefer">> >>

\* str(value) of an option; cpus is the one field declared int
OptionStr(attr, value) == IF attr = "cpus" THEN IntToStr(value) ELSE value

\* `value is not None`
IsNotNone(value) == Len(value) = 1

\* `if value:`, which is also false of "" and of 0
IsTruthy(attr, value) ==
    Len(value) = 1 /\ (IF attr = "cpus" THEN value[1] # 0 ELSE value[1] # "")

\* the loop of _get_options from mapping k on; truthy: which test it makes
RECURSIVE OptionsFrom(_, _, _)
OptionsFrom(o, k, truthy) ==
    IF k > Len(OPTION_MAPPINGS) THEN <<>>
    ELSE LET attr == OPTION_MAPPINGS[k][1]
             value == o[attr]
         IN  (IF (IF truthy THEN IsTruthy(attr, value) ELSE IsNotNone(value))
              THEN << <<OPTION_MAPPINGS[k][2], OptionStr(attr, value[1])>> >>
              ELSE <<>>)
             \o OptionsFrom(o, k + 1, truthy)

\* variant: the test written `if value:`
get_options_Truthy(o) == OptionsFrom(o, 1, TRUE)

\* SlurmExecutor._get_options
get_options(o) == OptionsFrom(o, 1, FALSE)

\* SbatchBuilder.sbatch_option
sbatch_option(opts, key, value) == Append(opts, "#SBATCH --" \o key \o "=" \o value)

\* SlurmExecutor._apply_options_to_builder
RECURSIVE AddOptions(_, _)
AddOptions(opts, kvs) ==
    IF Len(kvs) = 0 THEN opts
    ELSE AddOptions(sbatch_option(opts, kvs[1][1], kvs[1][2]), SubSeq(kvs, 2, Len(kvs)))

apply_options_to_builder(opts, o) == AddOptions(opts, get_options(o))

\* ScriptBuilder.blank_line
blank_line(ls) == Append(ls, "")

\* SbatchBuilder.rex_header
rex_header(ls, description) ==
    blank_line(ls) \o
    << "echo \"[rex] Running: $(date)\"",
       "echo \"[rex] Host: $(hostname)\"",
       "echo \"[rex] " \o description \o "\"",
       "echo \"---\"" >>

\* SbatchBuilder.rex_footer
rex_footer(ls) ==
    blank_line(ls) \o
    << "_rex_exit=$?",
       "echo \"---\"",
       "echo \"[rex] Finished: $(date)\"",
       "echo \"[rex] Exit code: $_rex_exit\"",
       "exit $_rex_exit" >>

\* the first loop of SbatchBuilder.build: a line that starts with "#!" is
\* inserted at the front, any other line is appended
RECURSIVE ShebangFirst(_, _)
ShebangFirst(ls, acc) ==
    IF Len(ls) = 0 THEN acc
    ELSE ShebangFirst(SubSeq(ls, 2, Len(ls)),
                      IF StartsWith(ls[1], "#!") THEN <<ls[1]>> \o acc
                      ELSE Append(acc, ls[1]))

\* SbatchBuilder.build
SbatchBuild(ls, opts) ==
    LET l == ShebangFirst(ls, <<>>)
        insert_pos == IF Len(l) > 0 /\ StartsWith(l[1], "#!") THEN 1 ELSE 0
        placed == IF Len(opts) > 0
                  THEN SubSeq(l, 1, insert_pos) \o opts \o SubSeq(l, insert_pos + 1, Len(l))
                  ELSE l
    IN  Join(placed, "\n") \o "\n"

\* " ".join(f"'{a}'" for a in args)
RECURSIVE ArgsStr(_)
ArgsStr(args) ==
    IF Len(args) = 0 THEN ""
    ELSE "'" \o args[1] \o "'" \o (IF Len(args) > 1 THEN " " ELSE "")
             \o ArgsStr(SubSeq(args, 2, Len(args)))

\* python_cmd of run_detached
python_cmd(python, script, args) ==
    python \o " -u " \o script
        \o (IF ArgsStr(args) # "" THEN " " \o ArgsStr(args) ELSE "")

\* the job name and the remote home of the submissions followed here
BatchJob == "a"

BatchHome == "/home/u"

\* the scheduler options an executor is configured with
SampleOptions ==
    { SlurmOptions(NoStr, NoStr, NoStr, NoStr, NoStr, NoStr, NoStr),
      SlurmOptions(Some("gpu"), Some("gpu:1"), NoStr, NoStr, NoStr, NoStr, NoStr),
      SlurmOptions(NoStr, NoStr, Some("1:00:00"), NoStr, NoStr, NoStr, NoStr),
      SlurmOptions(Some(""), NoStr, NoStr, Some(0), NoStr, NoStr, NoStr),
      SlurmOptions(Some("gpu"), Some("gpu:1"), Some("2:00"), Some(4), Some("8G"),
                   Some("a100"), Some("h100")) }

\* the contexts of the submissions followed here
BatchContexts ==
    { ExecutionContext(<<>>, NoStr, NoStr, <<>>),
      ExecutionContext(<<"gcc">>, NoStr, Some("/data/x"), <<>>),
      ExecutionContext(<<"gcc", "cuda/12">>, Some("/my dir"), Some("/data/x"),
                       <<<<"A", "1">>>>) }

\* the argument lists of run_detached and the commands of exec_detached
SampleArgs == {<<>>, <<"x y">>}

SampleCmds == {"make", "exit 3", "cd w\nmake", "#!/bin/sh\nmake"}

\* exit codes a remote command may end with
ExitCodes == {0, 1, 2, 130, 255}

\* the lines of the script file sbatch was handed
ScriptLines(content) ==
    LET ls == SplitLines(content)
    IN  IF Len(ls) > 0 /\ ls[Len(ls)] = "" THEN SubSeq(ls, 1, Len(ls) - 1) ELSE ls

InitBatch ==
    /\ IdleWatch
    /\ IdleMulti
    /\ IdleProc
    /\ IdleSlurm
    /\ IdleQuote
    /\ IdleFg
    /\ IdleConn
    /\ IdleLog
    /\ IdleCli
    /\ ctx \in BatchContexts
    /\ bEntry \in {"run", "exec"}
    /\ mkdir_run_dir = (bEntry = "run")
    /\ cPc = "new"
    /\ lines = <<>>
    /\ commands = <<>>
    /\ options \in SampleOptions
    /\ payload \in IF bEntry = "run"
                   THEN {python_cmd(ctx.python, slurm_remote_script(BatchHome, BatchJob), a) :
                            a \in SampleArgs}
                   ELSE SampleCmds
    /\ sbatch_options = <<>>
    /\ sbatch_content = ""
    /\ bPc = "new"
    /\ shScript = <<>>
    /\ shLine = 0
    /\ shStatus = 0
    /\ rex_exit = ""
    /\ payCode = None
    /\ jobLog = <<>>
    /\ shCode = None

\* "# Build sbatch script" of run_detached and of exec_detached, up to
\* `sbatch_content = builder.build()`
BuildSbatch ==
    /\ bPc = "new"
    /\ LET o1 == sbatch_option(<<>>, "job-name", "rex-" \o BatchJob)
           o2 == sbatch_option(o1, "output", slurm_remote_log(BatchHome, BatchJob))
           o3 == sbatch_option(o2, "open-mode", "append")
           o4 == apply_options_to_builder(o3, options)
           l1 == shebang(<<>>, TRUE)
           l2 == rex_header(l1, IF bEntry = "run"
                                THEN "Script: " \o slurm_remote_script(BatchHome, BatchJob)
                                ELSE "Command: " \o payload)
           l3 == apply_context(l2, ctx, mkdir_run_dir)
           l4 == run_command(blank_line(l3), payload)
           l5 == rex_footer(l4)
       IN  /\ sbatch_options' = o4
           /\ lines' = l5
           /\ sbatch_content' = SbatchBuild(l5, o4)
    /\ bPc' = "built"
    /\ cPc' = "built"
    /\ UNCHANGED <<ctx, mkdir_run_dir, commands, options, bEntry, payload,
                   shScript, shLine, shStatus, rex_exit, payCode, jobLog, shCode>>

\* what `echo "..."` prints: the command substitutions and the variable of
\* the footer expanded
EchoText(l) ==
    LET body == SubSeq(l, 7, Len(l) - 1)
    IN  Replace(Replace(Replace(body, "$(date)", "DATE"), "$(hostname)", "HOST"),
                "$_rex_exit", rex_exit)

\* the line on which the double-quoted word opened on line i is closed
EchoEnd(ls, i) ==
    CHOOSE j \in i..Len(ls) :
        /\ Len(ls[j]) > (IF j = i THEN 6 ELSE 0) /\ Ch(ls[j], Len(ls[j])) = "\""
        /\ \A k \in i..(j - 1) :
              ~(Len(ls[k]) > (IF k = i THEN 6 ELSE 0) /\ Ch(ls[k], Len(ls[k])) = "\"")

\* the last line of the payload
PayloadLast == LET ls == SplitLines(payload) IN ls[Len(ls)]

\* the scheduler starts the job: the script runs from its first line
JobStart ==
    /\ bPc = "built"
    /\ bPc' = "running"
    /\ shScript' = ScriptLines(sbatch_content)
    /\ shLine' = 1
    /\ UNCHANGED <<cvars, options, bEntry, payload, sbatch_options, sbatch_content,
                   shStatus, rex_exit, payCode, jobLog, shCode>>

\* the job's shell runs the next line of the script; code: the exit code
\* of the command when the line runs an external command
ShellStep(code) ==
    /\ bPc = "running"
    /\ shLine <= Len(shScript)
    /\ LET l == shScript[shLine]
       IN  IF l = "" \/ StartsWith(l, "#")
           THEN /\ code = 0
                /\ shLine' = shLine + 1
                /\ UNCHANGED <<bPc, shStatus, rex_exit, payCode, jobLog, shCode>>
           ELSE IF l = "_rex_exit=$?"
           THEN /\ code = 0
                /\ rex_exit' = IntToStr(shStatus)
                /\ shStatus' = 0
                /\ shLine' = shLine + 1
                /\ UNCHANGED <<bPc, payCode, jobLog, shCode>>
           ELSE IF StartsWith(l, "echo \"")
           THEN /\ code = 0
                /\ LET j == EchoEnd(shScript, shLine)
                   IN  /\ jobLog' = jobLog \o SplitLines(EchoText(Join(SubSeq(shScript, shLine, j), "\n")))
                       /\ shLine' = j + 1
                /\ shStatus' = 0
                /\ UNCHANGED <<bPc, rex_exit, payCode, shCode>>
           ELSE IF StartsWith(l, "exit ")
           THEN /\ code = 0
                /\ LET arg == Replace(SubSeq(l, 6, Len(l)), "$_rex_exit", rex_exit)
                       n == IF arg = "" THEN shStatus ELSE ParseInt(arg) % 256
                   IN  /\ shCode' = n
                       /\ payCode' = IF l = PayloadLast THEN n ELSE payCode
                /\ bPc' = "exited"
                /\ UNCHANGED <<shLine, shStatus, rex_exit, jobLog>>
           ELSE /\ shStatus' = code
                /\ payCode' = IF l = PayloadLast THEN code ELSE payCode
                /\ shLine' = shLine + 1
                /\ UNCHANGED <<bPc, rex_exit, jobLog, shCode>>
    /\ UNCHANGED <<cvars, options, bEntry, payload, sbatch_options, sbatch_content,
                   shScript>>

NextBatch ==
    \/ BuildSbatch /\ UNCHANGED <<wvars, mvars, pvars, svars, qvars, fvars, nvars, lvars, avars>>
    \/ JobStart /\ UNCHANGED <<wvars, mvars, pvars, svars, qvars, fvars, nvars, lvars, avars>>
    \/ (\E code \in ExitCodes : ShellStep(code)) /\ UNCHANGED <<wvars, mvars, pvars, svars, qvars, fvars, nvars, lvars, avars>>

SpecBatch == InitBatch /\ [][NextBatch]_vars

\* ---------------------------------------------------------------------
\* Foreground execution (execution/direct.py, execution/slurm.py)
\* ---------------------------------------------------------------------
MaxRuns == 1

\* generate_script_id(): f"{os.getpid()}-{int(time.time())}", one per call
ScriptId(n) == "41-" \o IntToStr(n)

\* variant: the test written without the padding newlines
HasDelimiterLine_NoPadding(cmd) == Contains(cmd, "\nREXCMD\n")

\* `"\nREXCMD\n" in f"\n{cmd}\n"`
HasDelimiterLine(cmd) == Contains("\n" \o cmd \o "\n", "\nREXCMD\n")

\* "\n".join(context_cmds) + "\n" if context_cmds else ""
Prefix(c) ==
    IF Len(build_context_commands(c, FALSE)) > 0
    THEN Join(build_context_commands(c, FALSE), "\n") \o "\n"
    ELSE ""

\* write_script of DirectExecutor.exec_foreground
write_script(remote_cmd, prefix, cmd) ==
    "cat > " \o remote_cmd \o " << 'REXCMD'\n#!/bin/bash -l\n" \o prefix \o cmd
        \o "\nREXCMD\nchmod +x " \o remote_cmd

\* write_cmd of SlurmExecutor.exec_foreground
write_cmd(remote_cmd, cmd) == "cat > " \o remote_cmd \o " << 'REXCMD'\n" \o cmd \o "\nREXCMD"

\* the remote bash runs `cat > path << 'REXCMD'` followed by more lines: the
\* here-document is every line up to the first line that is REXCMD (or up to
\* the end of the text), each with its newline; the lines after it are
\* commands of the same shell
Heredoc(text) ==
    LET ls == SplitLines(text)
        ends == {i \in 2..Len(ls) : ls[i] = "REXCMD"}
        end == IF ends = {} THEN Len(ls) + 1 ELSE CHOOSE i \in ends : \A j \in ends : i <= j
    IN  [content |-> IF end > 2 THEN Join(SubSeq(ls, 2, end - 1), "\n") \o "\n" ELSE "",
         rest |-> SubSeq(ls, end + 1, Len(ls))]

\* f with the files of paths removed (rm -f)
RmFiles(f, paths) == [q \in DOMAIN f \ paths |-> f[q]]

\* f with the file q holding content (cat > q)
PutFile(f, q, content) == [r \in DOMAIN f \cup {q} |-> IF r = q THEN content ELSE f[r]]

\* the ways a remote-session call can go wrong: "fail", the session was not
\* established and nothing ran (exit 255); "drop", the session was lost
\* while the payload ran, so the rest of the command line never ran
Failures == {"fail", "drop"}

\* DirectExecutor.exec_foreground(ctx, cmd).  failAt: the remote-session call
\* that goes wrong (0: none), code: the payload's exit code
exec_foreground(c, cmd, failAt, code) ==
    LET remote_cmd == "/tmp/rex-exec-" \o ScriptId(fRuns + 1) \o ".sh"
        prefix == Prefix(c)
        h == Heredoc(write_script(remote_cmd, prefix, cmd))
        op == [NoFgOp EXCEPT !.op = "exec_foreground", !.backend = "direct", !.cmd = cmd,
                             !.prefix = prefix]
    IN  IF HasDelimiterLine(cmd)
        THEN /\ fOp' = [op EXCEPT !.ret = 1]
             /\ UNCHANGED <<tmpFiles, fRuns>>
        ELSE /\ fRuns' = fRuns + 1
             /\ IF failAt = 1
                THEN \* `if code != 0: return code`
                     /\ fOp' = [op EXCEPT !.ret = 255, !.calls = 1]
                     /\ UNCHANGED tmpFiles
                ELSE LET written == PutFile(tmpFiles, remote_cmd, h.content)
                         leaked == SubSeq(h.rest, 1, Len(h.rest) - 1)
                         op2 == [op EXCEPT !.calls = 2, !.created = {remote_cmd},
                                           !.written = h.content, !.leaked = leaked]
                     IN  IF failAt = 2
                         THEN /\ fOp' = [op2 EXCEPT !.ret = 255]
                              /\ tmpFiles' = written
                         ELSE \* f"{remote_cmd}; _e=$?; rm -f {remote_cmd}; exit $_e"
                              /\ fOp' = [op2 EXCEPT !.ret = code, !.code = code]
                              /\ tmpFiles' = RmFiles(written, {remote_cmd})

\* SlurmExecutor.exec_foreground(ctx, cmd)
slurm_exec_foreground(c, cmd, failAt, code) ==
    LET script_dir == IF Truthy(c.run_dir) THEN c.run_dir[1] ELSE "$HOME/.rex"
        remote_wrapper == script_dir \o "/rex-exec-" \o ScriptId(fRuns + 1) \o ".sh"
        remote_cmd == script_dir \o "/rex-exec-" \o ScriptId(fRuns + 1) \o ".cmd"
        script_content == Join(<<"#!/bin/bash -l">> \o build_context_commands(c, FALSE)
                                   \o <<"source " \o remote_cmd>>, "\n") \o "\n"
        h == Heredoc(write_cmd(remote_cmd, cmd))
        op == [NoFgOp EXCEPT !.op = "exec_foreground", !.backend = "slurm", !.cmd = cmd]
    IN  IF HasDelimiterLine(cmd)
        THEN /\ fOp' = [op EXCEPT !.ret = 1]
             /\ UNCHANGED <<tmpFiles, fRuns>>
        ELSE /\ fRuns' = fRuns + 1
             /\ IF failAt = 2
                THEN \* mkdir ran; `if code != 0: return code`
                     /\ fOp' = [op EXCEPT !.ret = 255, !.calls = 2]
                     /\ UNCHANGED tmpFiles
                ELSE LET w1 == PutFile(tmpFiles, remote_cmd, h.content)
                         op2 == [op EXCEPT !.created = {remote_cmd}, !.written = h.content,
                                           !.leaked = h.rest]
                     IN  IF failAt = 3
                         THEN \* _ssh_write raises SSHError
                              /\ fOp' = [op2 EXCEPT !.raised = "SSHError", !.calls = 3]
                              /\ tmpFiles' = w1
                         ELSE LET w2 == PutFile(w1, remote_wrapper, script_content)
                                  op3 == [op2 EXCEPT !.calls = 4,
                                                     !.created = {remote_cmd, remote_wrapper}]
                              IN  IF failAt = 4
                                  THEN /\ fOp' = [op3 EXCEPT !.ret = 255]
                                       /\ tmpFiles' = w2
                                  ELSE \* srun ...; _e=$?; rm -f ...; exit $_e
                                       /\ fOp' = [op3 EXCEPT !.ret = code, !.code = code]
                                       /\ tmpFiles' = RmFiles(w2, {remote_cmd, remote_wrapper})

\* " ".join(shlex.quote(a) for a in args)
RECURSIVE QuotedArgs(_)
QuotedArgs(args) ==
    IF Len(args) = 0 THEN ""
    ELSE shlex_quote(args[1]) \o (IF Len(args) > 1 THEN " " ELSE "")
             \o QuotedArgs(SubSeq(args, 2, Len(args)))

\* ScriptBuilder.run_python
run_python(ls, python, script, args) ==
    Append(ls, python \o " -u " \o shlex_quote(script)
                   \o (IF Len(args) > 0 THEN " " \o QuotedArgs(args) ELSE ""))

\* ScriptBuilder.build
ScriptBuild(ls) == Join(ls, "\n") \o "\n"

\* the wrapper of run_foreground
Wrapper(c, remote_py, args) ==
    ScriptBuild(run_python(apply_context(shebang(<<>>, TRUE), c, FALSE), c.python,
                           remote_py, args))

\* the local script handed to run_foreground (script_content)
PyScript == "print(1)\n"

\* DirectExecutor.run_foreground(ctx, script_path, args).  how: the way the
\* failing call goes wrong
run_foreground(c, args, failAt, how, code) ==
    LET remote_py == "/tmp/rex-run-" \o ScriptId(fRuns + 1) \o ".py"
        remote_sh == "/tmp/rex-run-" \o ScriptId(fRuns + 1) \o ".sh"
        mktemp == "/tmp/tmp." \o ScriptId(fRuns + 1)
        op == [NoFgOp EXCEPT !.op = "run_foreground", !.backend = "direct"]
        \* self.ssh.exec(f"cat > {remote_py}"): its result is not looked at
        f1 == IF failAt = 1 THEN tmpFiles ELSE PutFile(tmpFiles, remote_py, "")
        c1 == IF failAt = 1 THEN {} ELSE {remote_py}
    IN  /\ fRuns' = fRuns + 1
        /\ IF failAt = 2
           THEN \* subprocess.run(..., check=True) raises
                /\ fOp' = [op EXCEPT !.raised = "CalledProcessError", !.calls = 2,
                                     !.created = c1]
                /\ tmpFiles' = f1
           ELSE LET f2 == PutFile(f1, remote_py, PyScript)
                    \* exec_script_streaming: script=$(mktemp) && cat > "$script" &&
                    \* chmod +x "$script" && "$script"; e=$?; rm -f "$script"; exit $e
                    f3 == IF failAt = 3 /\ how = "drop"
                          THEN PutFile(f2, mktemp, Wrapper(c, remote_py, args))
                          ELSE f2
                    c3 == IF failAt = 3 /\ how = "fail" THEN {remote_py}
                          ELSE {remote_py, mktemp}
                    exit_code == IF failAt = 3 THEN 255 ELSE code
                    \* self.ssh.exec(f"rm -f {remote_py} {remote_sh}")
                    f4 == IF failAt = 4 THEN f3 ELSE RmFiles(f3, {remote_py, remote_sh})
                IN  /\ fOp' = [op EXCEPT !.ret = exit_code, !.calls = 4, !.created = c3,
                                         !.code = IF failAt = 3 THEN None ELSE code]
                    /\ tmpFiles' = f4

\* SlurmExecutor.run_foreground(ctx, script_path, args)
slurm_run_foreground(c, args, failAt, code) ==
    LET script_dir == IF Truthy(c.run_dir) THEN c.run_dir[1] ELSE "$HOME/.rex"
        remote_py == script_dir \o "/rex-run-" \o ScriptId(fRuns + 1) \o ".py"
        remote_sh == script_dir \o "/rex-run-" \o ScriptId(fRuns + 1) \o ".sh"
        op == [NoFgOp EXCEPT !.op = "run_foreground", !.backend = "slurm"]
    IN  /\ fRuns' = fRuns + 1
        /\ IF failAt = 2
           THEN \* _ssh_write raises SSHError
                /\ fOp' = [op EXCEPT !.raised = "SSHError", !.calls = 2]
                /\ UNCHANGED tmpFiles
           ELSE LET f2 == PutFile(tmpFiles, remote_py, PyScript)
                IN  IF failAt = 3
                    THEN /\ fOp' = [op EXCEPT !.raised = "SSHError", !.calls = 3,
                                              !.created = {remote_py}]
                         /\ tmpFiles' = f2
                    ELSE LET f3 == PutFile(f2, remote_sh, Wrapper(c, remote_py, args))
                             op3 == [op EXCEPT !.calls = 4, !.created = {remote_py, remote_sh}]
                         IN  IF failAt = 4
                             THEN /\ fOp' = [op3 EXCEPT !.ret = 255]
                                  /\ tmpFiles' = f3
                             ELSE \* srun ...; _e=$?; rm -f ...; exit $_e
                                  /\ fOp' = [op3 EXCEPT !.ret = code, !.code = code]
                                  /\ tmpFiles' = RmFiles(f3, {remote_py, remote_sh})

\* the commands, contexts, argument lists and payload exit codes followed
FgCmds ==
    {"make", "ls\n", "REXCMD", "ls\nREXCMD\nrm -rf x", "date\nREXCMD", "echo REXCMD",
     " REXCMD", "ls\nREXCMD "}

FgContexts ==
    { ExecutionContext(<<>>, NoStr, NoStr, <<>>),
      ExecutionContext(<<"gcc">>, Some("/opt/p"), Some("/data/x"), <<<<"A", "1">>>>) }

FgCodes == {0, 3}

InitFg ==
    /\ IdleWatch
    /\ IdleMulti
    /\ IdleProc
    /\ IdleSlurm
    /\ IdleQuote
    /\ IdleContext
    /\ IdleBatch
    /\ IdleConn
    /\ IdleLog
    /\ IdleCli
    /\ tmpFiles = <<>>
    /\ fRuns = 0
    /\ fOp = NoFgOp

NextFg ==
    \/ /\ fRuns < MaxRuns
       /\ \E c \in FgContexts : \E cmd \in FgCmds : \E failAt \in 0..2 : \E code \in FgCodes :
             exec_foreground(c, cmd, failAt, code)
       /\ UNCHANGED <<wvars, mvars, pvars, svars, qvars, cvars, bvars, nvars, lvars, avars>>
    \/ /\ fRuns < MaxRuns
       /\ \E c \in FgContexts : \E cmd \in FgCmds : \E failAt \in 0..4 : \E code \in FgCodes :
             slurm_exec_foreground(c, cmd, failAt, code)
       /\ UNCHANGED <<wvars, mvars, pvars, svars, qvars, cvars, bvars, nvars, lvars, avars>>
    \/ /\ fRuns < MaxRuns
       /\ \E c \in FgContexts : \E args \in SampleArgs : \E failAt \in 0..4 :
          \E how \in Failures : \E code \in FgCodes :
             run_foreground(c, args, failAt, how, code)
       /\ UNCHANGED <<wvars, mvars, pvars, svars, qvars, cvars, bvars, nvars, lvars, avars>>
    \/ /\ fRuns < MaxRuns
       /\ \E c \in FgContexts : \E args \in SampleArgs : \E failAt \in 0..4 : \E code \in FgCodes :
             slurm_run_foreground(c, args, failAt, code)
       /\ UNCHANGED <<wvars, mvars, pvars, svars, qvars, cvars, bvars, nvars, lvars, avars>>

SpecFg == InitFg /\ [][NextFg]_vars

\* ---------------------------------------------------------------------
\* The ControlMaster connection (ssh/connection.py, commands/connection.py)
\* ---------------------------------------------------------------------
\* exit codes of the `ssh -fN` process that is to become the master
MasterCodes == {0, 1, 255}

\* SSHConnection.is_connected: the socket file exists and `ssh -O check`
\* exits 0
is_connected(t) == sockets[t] = "live"

\* output.error(msg): prints, then sys.exit(1) unless exit_now is False
ErrorExits(exit_now) == exit_now

\* SSHConnection.connect(), rc the exit code of the ssh process: what it
\* returns or raises, the socket afterwards and what it prints
ConnectOutcome(t, rc) ==
    IF is_connected(t)
    THEN [ret |-> "True", raised |-> "none", sock |-> "live", rc |-> None,
          msgs |-> <<"Already connected to " \o t>>]
    ELSE IF rc # 0
    THEN \* error(f"Failed to connect to {self.target}"); return False
         [ret |-> IF ErrorExits(TRUE) THEN "none" ELSE "False",
          raised |-> IF ErrorExits(TRUE) THEN "SystemExit" ELSE "none",
          sock |-> "none", rc |-> rc,
          msgs |-> <<"Connecting to " \o t \o "...", "error: Failed to connect to " \o t>>]
    ELSE [ret |-> "True", raised |-> "none", sock |-> "live", rc |-> rc,
          msgs |-> <<"Connecting to " \o t \o "...", "Connected to " \o t>>]

\* conn.connect() called on an SSHConnection
conn_connect(t, rc) ==
    LET o == ConnectOutcome(t, rc)
    IN  /\ sockets' = [sockets EXCEPT ![t] = o.sock]
        /\ connOp' = [NoConnOp EXCEPT !.op = "SSHConnection.connect", !.target = t,
                          !.rc = o.rc, !.ret = o.ret, !.raised = o.raised, !.msgs = o.msgs,
                          !.exit = IF o.raised = "SystemExit" THEN 1 ELSE None]

\* commands/connection.py:connect(target), the --connect command
connect(t, rc) ==
    LET o == ConnectOutcome(t, rc)
    IN  /\ sockets' = [sockets EXCEPT ![t] = o.sock]
        /\ connOp' = [NoConnOp EXCEPT !.op = "connect", !.target = t, !.rc = o.rc,
                          !.raised = IF o.raised = "SSHError" THEN "none" ELSE o.raised,
                          !.msgs = o.msgs,
                          \* try: conn.connect(); return 0
                          \* except SSHError: return 1
                          !.ret = IF o.raised = "none" THEN "0"
                                  ELSE IF o.raised = "SSHError" THEN "1" ELSE "none",
                          !.exit = IF o.raised = "none" THEN 0 ELSE 1]

\* commands/connection.py:disconnect(target), the --disconnect command
disconnect(t) ==
    /\ sockets' = [sockets EXCEPT ![t] = "none"]
    /\ connOp' = [NoConnOp EXCEPT !.op = "disconnect", !.target = t, !.ret = "0", !.exit = 0,
                      !.msgs = IF sockets[t] = "none"
                               THEN <<"warning: No active connection to " \o t>>
                               ELSE <<"Disconnected from " \o t>>]

\* commands/connection.py:connection_status(target), the --connection command
connection_status(t) ==
    /\ connOp' = [NoConnOp EXCEPT !.op = "connection_status", !.target = t,
                      !.ret = IF is_connected(t) THEN "0" ELSE "1",
                      !.exit = IF is_connected(t) THEN 0 ELSE 1,
                      !.msgs = IF is_connected(t) THEN <<"connected: " \o t>>
                               ELSE <<"disconnected: " \o t>>]
    /\ UNCHANGED sockets

\* the master process of a live connection dies; its socket file stays
MasterDies(t) ==
    /\ sockets[t] = "live"
    /\ sockets' = [sockets EXCEPT ![t] = "stale"]
    /\ UNCHANGED connOp

InitConn ==
    /\ IdleWatch
    /\ IdleMulti
    /\ IdleProc
    /\ IdleSlurm
    /\ IdleQuote
    /\ IdleContext
    /\ IdleBatch
    /\ IdleFg
    /\ IdleLog
    /\ IdleCli
    /\ sockets = [t \in Targets |-> "none"]
    /\ connOp = NoConnOp

NextConn ==
    \/ (\E t \in Targets : \E rc \in MasterCodes : conn_connect(t, rc))
           /\ UNCHANGED <<wvars, mvars, pvars, svars, qvars, cvars, bvars, fvars, lvars, avars>>
    \/ (\E t \in Targets : \E rc \in MasterCodes : connect(t, rc))
           /\ UNCHANGED <<wvars, mvars, pvars, svars, qvars, cvars, bvars, fvars, lvars, avars>>
    \/ (\E t \in Targets : disconnect(t))
           /\ UNCHANGED <<wvars, mvars, pvars, svars, qvars, cvars, bvars, fvars, lvars, avars>>
    \/ (\E t \in Targets : connection_status(t))
           /\ UNCHANGED <<wvars, mvars, pvars, svars, qvars, cvars, bvars, fvars, lvars, avars>>
    \/ (\E t \in Targets : MasterDies(t))
           /\ UNCHANGED <<wvars, mvars, pvars, svars, qvars, cvars, bvars, fvars, lvars, avars>>

SpecConn == InitConn /\ [][NextConn]_vars

\* ---------------------------------------------------------------------
\* The log of a batch job: the header the client writes after sbatch has
\* returned, and the job's own output (execution/slurm.py)
\* ---------------------------------------------------------------------
\* the four echo commands of the header, in the order the remote shell runs
\* them; the first redirects with `>`, the others with `>>`
PendingHeader(slurm_id) ==
    << "[rex] Submitted: DATE",
       "[rex] SLURM ID: " \o IntToStr(slurm_id),
       "[rex] Status: pending",
       "---" >>

\* what the payload prints, and the scheduler ids sbatch answers with
PayloadOutputs == {<<>>, <<"epoch 1">>, <<"epoch 1", "epoch 2">>}

SampleSlurmIds == {9, 4217}

\* what the batch script prints to its --output file: the echo lines of
\* rex_header, the payload's output, the echo lines of rex_footer
JobPrints(out, code) ==
    << "[rex] Running: DATE", "[rex] Host: HOST",
       "[rex] Script: " \o slurm_remote_script(BatchHome, BatchJob), "---" >>
    \o out
    \o << "---", "[rex] Finished: DATE", "[rex] Exit code: " \o IntToStr(code) >>

InitLog ==
    /\ IdleWatch
    /\ IdleMulti
    /\ IdleProc
    /\ IdleSlurm
    /\ IdleQuote
    /\ IdleContext
    /\ IdleBatch
    /\ IdleFg
    /\ IdleConn
    /\ IdleCli
    /\ logFile = <<>>
    /\ lPc = "sbatch"
    /\ lSlurmId = None
    /\ jobState = "none"
    /\ jobTodo \in {JobPrints(out, code) : out \in PayloadOutputs, code \in FgCodes}
    /\ jobOut = <<>>

\* `sbatch --parsable` returns; accepted: the scheduler took the job and
\* answered with its id (run_detached 188-208)
SbatchReturns(accepted, id) ==
    /\ lPc = "sbatch"
    /\ IF accepted
       THEN /\ lSlurmId' = id
            /\ jobState' = "pending"
            /\ lPc' = "echo1"
       ELSE /\ lPc' = "returned"
            /\ UNCHANGED <<lSlurmId, jobState>>
    /\ UNCHANGED <<logFile, jobTodo, jobOut>>

\* the remote shell runs the next echo of the header command
\* (run_detached 211-216)
HeaderEcho ==
    /\ lPc \in {"echo1", "echo2", "echo3", "echo4"}
    /\ LET k == CHOOSE i \in 1..4 : lPc = "echo" \o IntToStr(i)
       IN  /\ logFile' = IF k = 1 THEN <<PendingHeader(lSlurmId)[1]>>
                         ELSE Append(logFile, PendingHeader(lSlurmId)[k])
           /\ lPc' = IF k = 4 THEN "returned" ELSE "echo" \o IntToStr(k + 1)
    /\ UNCHANGED <<lSlurmId, jobState, jobTodo, jobOut>>

\* the session of the header command is not established: ssh.exec returns
\* 255, which run_detached does not look at
HeaderFails ==
    /\ lPc = "echo1"
    /\ lPc' = "no_header"
    /\ UNCHANGED <<logFile, lSlurmId, jobState, jobTodo, jobOut>>

\* the scheduler starts the pending job
LogJobStarts ==
    /\ jobState = "pending"
    /\ jobState' = "running"
    /\ UNCHANGED <<logFile, lPc, lSlurmId, jobTodo, jobOut>>

\* the job prints its next line: --open-mode=append, the line goes to the
\* end of the file as it is at that moment
JobWrites ==
    /\ jobState = "running"
    /\ Len(jobTodo) > 0
    /\ logFile' = Append(logFile, jobTodo[1])
    /\ jobOut' = Append(jobOut, jobTodo[1])
    /\ jobTodo' = SubSeq(jobTodo, 2, Len(jobTodo))
    /\ UNCHANGED <<lPc, lSlurmId, jobState>>

\* the job's script has exited
JobEnds ==
    /\ jobState = "running"
    /\ Len(jobTodo) = 0
    /\ jobState' = "ended"
    /\ UNCHANGED <<logFile, lPc, lSlurmId, jobTodo, jobOut>>

NextLog ==
    \/ (\E accepted \in BOOLEAN : \E id \in SampleSlurmIds : SbatchReturns(accepted, id))
           /\ UNCHANGED <<wvars, mvars, pvars, svars, qvars, cvars, bvars, fvars, nvars, avars>>
    \/ HeaderEcho /\ UNCHANGED <<wvars, mvars, pvars, svars, qvars, cvars, bvars, fvars, nvars, avars>>
    \/ HeaderFails /\ UNCHANGED <<wvars, mvars, pvars, svars, qvars, cvars, bvars, fvars, nvars, avars>>
    \/ LogJobStarts /\ UNCHANGED <<wvars, mvars, pvars, svars, qvars, cvars, bvars, fvars, nvars, avars>>
    \/ JobWrites /\ UNCHANGED <<wvars, mvars, pvars, svars, qvars, cvars, bvars, fvars, nvars, avars>>
    \/ JobEnds /\ UNCHANGED <<wvars, mvars, pvars, svars, qvars, cvars, bvars, fvars, nvars, avars>>

SpecLog == InitLog /\ [][NextLog]_vars

\* ---------------------------------------------------------------------
\* The command line: where a job id comes from and where it goes
\* (cli.py _main, commands/jobs.py, commands/exec.py, utils.py)
\* ---------------------------------------------------------------------
\* validate_job_name: re.match(r"^[a-zA-Z0-9_-]+$", name).  `$` matches at
\* the end of the string and also just before a newline that ends it.
validate_job_name(name) ==
    IF \/ ValidJobName(name)
       \/ /\ Len(name) > 1
          /\ Ch(name, Len(name)) = "\n"
          /\ ValidJobName(SubSeq(name, 1, Len(name) - 1))
    THEN "ok" ELSE "ValueError"

HexDigits == "0123456789abcdef"

\* secrets.token_hex(2): two random bytes as four hexadecimal digits
token_hex2(n) ==
    Ch(HexDigits, ((n \div 4096) % 16) + 1) \o Ch(HexDigits, ((n \div 256) % 16) + 1) \o
    Ch(HexDigits, ((n \div 16) % 16) + 1) \o Ch(HexDigits, (n % 16) + 1)

\* a strftime field: the number in decimal, zero-padded to the width w
RECURSIVE ZeroPad(_, _)
ZeroPad(str, w) == IF Len(str) >= w THEN str ELSE ZeroPad("0" \o str, w)

\* datetime.now().strftime('%Y%m%d-%H%M%S')
strftime(now) ==
    ZeroPad(IntToStr(now.Y), 4) \o ZeroPad(IntToStr(now.m), 2) \o ZeroPad(IntToStr(now.d), 2)
    \o "-" \o
    ZeroPad(IntToStr(now.H), 2) \o ZeroPad(IntToStr(now.M), 2) \o ZeroPad(IntToStr(now.S), 2)

\* utils.generate_job_name
generate_job_name(now, n) == strftime(now) \o "-" \o token_hex2(n)

\* moments of the clock and values of the two random bytes
SampleNows == {[Y |-> 2026, m |-> 11, d |-> 5, H |-> 9, M |-> 0, S |-> 7],
               [Y |-> 1999, m |-> 12, d |-> 31, H |-> 23, M |-> 59, S |-> 59]}

SampleTokens == {0, 171, 48879, 65535}

\* values a caller may give to --name, --status, --log, --kill, --watch
SampleJobArgs == {"a", "t_1", "a.b", "a;id", "a\n", "--last", ""}

\* what get_last_job reads from the remote log directory ("" : no log)
LastJobs == {"", "a", "20261105-090007-00ab"}

JobFlags == {"name", "status", "log", "kill", "watch"}

\* SlurmExecutor.get_status / watch_job: the live-queue query
SqueueCmd(job_id) == "squeue -u $USER -n rex-" \o job_id \o " -h -o %T 2>/dev/null"

\* SlurmExecutor.kill_job
ScancelCmd(job_id) == "scancel -n rex-" \o job_id

\* commands/jobs.py show_log, follow = False
ShowLogCmd(job_id) ==
    "log=$(if [ -f ~/.rex/rex-" \o job_id \o ".log ]; then echo ~/.rex/rex-" \o job_id \o ".log; "
    \o "elif [ -f /tmp/rex-" \o job_id \o ".log ]; then echo /tmp/rex-" \o job_id \o ".log; fi); "
    \o "[ -n \"$log\" ] || { echo \"Log not found\" >&2; exit 1; }"
    \o "; cat \"$log\""

\* the first remote command, or the remote paths, a job command builds
\* from the job id
JobCommand(flag, slurm, job_id) ==
    CASE flag = "status" -> <<IF slurm THEN SqueueCmd(job_id) ELSE GetStatusCmd(job_id)>>
      [] flag = "watch"  -> <<IF slurm THEN SqueueCmd(job_id) ELSE GetStatusCmd(job_id)>>
      [] flag = "kill"   -> <<IF slurm THEN ScancelCmd(job_id) ELSE KillJobCmd(job_id)>>
      [] flag = "log"    -> <<ShowLogCmd(job_id)>>
      [] OTHER           -> IF slurm
                            THEN <<slurm_remote_sbatch(BatchHome, job_id),
                                   slurm_remote_log(BatchHome, job_id)>>
                            ELSE <<remote_script(job_id), remote_log(job_id)>>

\* parse_args and _validate_args have accepted the command line: one job
\* flag with its value; --last only next to --status, --log, --kill, --watch
InitCli ==
    /\ cliArgs \in [flag : JobFlags, value : SampleJobArgs, last : BOOLEAN, slurm : BOOLEAN]
    /\ cliArgs.last => (cliArgs.flag # "name" /\ (cliArgs.value # "" \/ cliArgs.flag = "watch"))
    /\ cliPc = "parsed"
    /\ cliJobIds = <<>>
    /\ cliSent = <<>>
    /\ IdleWatch
    /\ IdleMulti
    /\ IdleProc
    /\ IdleSlurm
    /\ IdleQuote
    /\ IdleContext
    /\ IdleBatch
    /\ IdleFg
    /\ IdleConn
    /\ IdleLog

\* `if args.name: validate_job_name(args.name)`, the only validation of a
\* job id in _main
CliValidate ==
    /\ cliPc = "parsed"
    /\ cliPc' = IF cliArgs.flag = "name" /\ cliArgs.value # ""
                   /\ validate_job_name(cliArgs.value) = "ValueError"
                THEN "raised" ELSE "validated"
    /\ UNCHANGED <<cliArgs, cliJobIds, cliSent>>

\* the dispatch of _main on --status, --log, --kill, --watch, and the
\* detached run that takes --name (exec_command: job_name or
\* generate_job_name()).  An empty --status/--log/--kill value is falsy and
\* selects no job command.
CliDispatch(last_job, now, n) ==
    LET flag   == cliArgs.flag
        value  == cliArgs.value
        use_last == IF flag = "watch" THEN value = "" \/ cliArgs.last
                    ELSE cliArgs.last \/ value = "--last"
        job_id == IF flag = "name"
                  THEN (IF value # "" THEN value ELSE generate_job_name(now, n))
                  ELSE IF use_last THEN last_job ELSE value
    IN
    /\ cliPc = "validated"
    /\ IF flag \in {"status", "log", "kill"} /\ value = ""
       THEN /\ cliPc' = "dispatched"
            /\ UNCHANGED <<cliJobIds, cliSent>>
       ELSE IF flag # "name" /\ use_last /\ last_job = ""
       THEN /\ cliPc' = "raised"
            /\ UNCHANGED <<cliJobIds, cliSent>>
       ELSE /\ cliPc' = "dispatched"
            /\ cliJobIds' = <<job_id>>
            /\ cliSent' = JobCommand(flag, cliArgs.slurm, job_id)
    /\ UNCHANGED cliArgs

NextCli ==
    \/ CliValidate /\ UNCHANGED <<wvars, mvars, pvars, svars, qvars, cvars, bvars, fvars, nvars, lvars>>
    \/ (\E last_job \in LastJobs : \E now \in SampleNows : \E n \in SampleTokens :
            CliDispatch(last_job, now, n)) /\ UNCHANGED <<wvars, mvars, pvars, svars, qvars, cvars, bvars, fvars, nvars, lvars>>

SpecCli == InitCli /\ [][NextCli]_vars

\* ---------------------------------------------------------------------
\* Properties of watch_job (SpecWatch)
\* ---------------------------------------------------------------------
Live == {"running", "pending", "completing"}

NoFail == \A i \in 1..Len(hist) : hist[i] # "fail"

\* the JobResult status each backend gives a job that ended
ExpectedTerminal ==
    IF wBackend = "direct" THEN "done"
    ELSE CASE acct = "COMPLETED" -> "success"
           [] acct \in {"FAILED", "CANCELLED", "TIMEOUT", "NODE_FAIL"} -> "failed"
           [] OTHER -> "done"

\* C1: when the status source answers running/pending on the first N polls
\* and a terminal state on poll N+1, with no transport failure, watch_job
\* has polled exactly N+1 times, slept exactly N times (after each
\* non-terminal poll, never after the terminal one) and returned the
\* terminal state; it never polls after a terminal answer and never
\* returns before one.
C1_WatchTermination ==
    (NoFail /\ acct # "fail") =>
        /\ \A i \in 1..(Len(hist) - 1) : hist[i] \in Live
        /\ (wPc = "done") <=> (Len(hist) > 0 /\ hist[Len(hist)] = "gone")
        /\ (wPc = "done") =>
              /\ polls = Len(hist)
              /\ sleeps = Len(hist) - 1
              /\ wResult.job_id = WatchedJob
              /\ wResult.status = ExpectedTerminal
        /\ (wPc = "sleep") => (polls = Len(hist) /\ sleeps = Len(hist) - 1)
        /\ (wPc = "poll") => (polls = Len(hist) /\ sleeps = Len(hist))

C1_Witness ==
    /\ wPc = "done"
    /\ hist = <<"pending", "running", "gone">>
    /\ acct = "FAILED"
    /\ polls = 3 /\ sleeps = 2
    /\ wResult.status = "failed"

\* C2: three consecutive transport failures end watch_job right after the
\* third one with JobResult(unknown, exit_code 1): the third failure is the
\* last poll, and no sleep follows it.
C2_RetryBudget ==
    \A i \in 3..Len(hist) :
        (hist[i - 2] = "fail" /\ hist[i - 1] = "fail" /\ hist[i] = "fail") =>
            /\ i = Len(hist)
            /\ wPc = "done"
            /\ wResult = JobResult(WatchedJob, "unknown", 1)
            /\ polls = i
            /\ sleeps = i - 1

C2_Witness ==
    /\ hist = <<"fail", "fail", "fail">>
    /\ wPc = "done"
    /\ polls = 3 /\ sleeps = 2
    /\ wResult = JobResult(WatchedJob, "unknown", 1)

RECURSIVE TrailingFails(_)
TrailingFails(h) ==
    IF Len(h) > 0 /\ h[Len(h)] = "fail"
    THEN 1 + TrailingFails(SubSeq(h, 1, Len(h) - 1))
    ELSE 0

\* C3: every successful poll resets the failure counter, so the counter is
\* the number of failures since the last successful poll and watch_job
\* returns unknown only when its last three polls all failed.
C3_ResetOnSuccess ==
    /\ (wPc # "done" \/ wResult.status = "unknown") => failures = TrailingFails(hist)
    /\ (wResult.status = "unknown") =>
          /\ Len(hist) >= 3
          /\ \A i \in (Len(hist) - 2)..Len(hist) : hist[i] = "fail"
    /\ (\A i \in 3..Len(hist) :
            ~(hist[i - 2] = "fail" /\ hist[i - 1] = "fail" /\ hist[i] = "fail"))
          => wResult.status # "unknown"

C3_Witness ==
    /\ hist = <<"fail", "fail", "running", "fail", "gone">>
    /\ wPc = "done"
    /\ wResult.status # "unknown"
    /\ wResult.exit_code = 0

\* ---------------------------------------------------------------------
\* Properties of the multi-job loop of watch_jobs (SpecMulti)
\* ---------------------------------------------------------------------
\* the states in which a job ended successfully: "completed" (JobStatus
\* vocabulary), "success" and "done" (what the two watch_job loops return
\* with exit code 0)
SuccessStates == {"completed", "success", "done"}

ExitCodeFits(r) ==
    /\ r.exit_code \in {0, 1}
    /\ (r.exit_code = 0) <=> (r.status \in SuccessStates)

\* C4: every JobResult of watch_job and of the multi-job loop has exit_code
\* 0 exactly when the job ended in the successful terminal state and 1 for
\* every other terminal state.
C4_ExitCodeByState ==
    /\ (wResult # NoResult) => ExitCodeFits(wResult)
    /\ \A j \in DOMAIN results : ExitCodeFits(results[j])

\* C5: each round polls every job still pending exactly once before the
\* round's sleep; a job found terminal leaves `pending`, is reported in that
\* round before the sleep, and is never polled again.
C5_RoundPollsAllPending ==
    /\ DOMAIN results = DOMAIN mReport
    /\ DOMAIN results \cap pending = {}
    /\ DOMAIN results \cup pending = Range(job_ids)
    /\ todo \subseteq pending
    /\ (mPc \in {"for", "sleep"}) => mSleeps = mRound - 1
    /\ (mPc = "while" /\ pending # {}) => mSleeps = mRound
    /\ (mPc = "sleep") => (todo = {} /\ pending # {})
    /\ \A j \in pending :
          Len(mAns[j]) = IF mPc = "for" /\ j \in todo THEN mRound - 1 ELSE mRound
    /\ \A j \in DOMAIN results :
          /\ Len(mAns[j]) = mReport[j].round
          /\ mReport[j].sleeps = mReport[j].round - 1
          /\ \A i \in 1..(Len(mAns[j]) - 1) : mAns[j][i] \in {"running", "pending"}

C5_Witness ==
    /\ mPc = "done"
    /\ DOMAIN mAns = {"a", "b"}
    /\ mAns["a"] = <<"gone">>
    /\ mAns["b"] = <<"running", "running", "gone">>
    /\ mReport["a"].sleeps = 0
    /\ mReport["b"].sleeps = 2
    /\ mSleeps = 2

\* C6: in the multi-job loop a status poll that fails at the transport
\* level does not finalize the job; a job whose last poll failed has a
\* result only if its last three polls failed, and that result is unknown
\* with exit code 1.
C6_FailedPollKeepsPending ==
    \A j \in DOMAIN results :
        LET h == mAns[j] IN
        (h[Len(h)] = "fail") =>
            /\ Len(h) >= 3
            /\ \A i \in (Len(h) - 2)..Len(h) : h[i] = "fail"
            /\ results[j].status = "unknown"
            /\ results[j].exit_code = 1

\* ---------------------------------------------------------------------
\* Properties of the direct backend against the process table (SpecProc)
\* ---------------------------------------------------------------------
\* the processes of the table whose command line names the script of job_id
ScriptProcs(job_id, table) == {p \in table : Contains(p.cmd, "rex-" \o job_id \o ".py")}

\* C7: get_status(J) returns running with a process id exactly when a live
\* process matches J's identity pattern, done (the completed status of this
\* backend) without a process id when none does, and unknown only when the
\* status query itself failed.
C7_StatusFollowsProcessTable ==
    (lastOp.op = "get_status") =>
        LET st   == lastOp.status
            live == ScriptProcs(lastOp.job_id, lastOp.snap)
        IN  /\ st.job_id = lastOp.job_id
            /\ (st.status = "unknown") <=> (lastOp.code # 0)
            /\ (lastOp.code = 0) =>
                  /\ (st.status = "running" /\ st.pid # None) <=> (live # {})
                  /\ (live # {}) => st.pid \in {p.pid : p \in live}
                  /\ (live = {}) => (st.status = "done" /\ st.pid = None)

C7_Witness ==
    /\ lastOp.op = "get_status"
    /\ lastOp.code = 0
    /\ lastOp.status.status = "running"
    /\ \E p \in lastOp.snap : p.pid = lastOp.status.pid /\ p.job = lastOp.job_id
    /\ \E p \in lastOp.snap : p.via = "exec_detached"

\* C8: a job started by exec_detached with job name J is reported by
\* get_status(J) as running with a process id while its remote process is
\* alive, and as done once that process has exited.
C8_ExecJobRunningWhileAlive ==
    (/\ lastOp.op = "get_status"
     /\ lastOp.code = 0
     /\ lastOp.job_id \in DOMAIN lastOp.jobs
     /\ lastOp.jobs[lastOp.job_id] = "exec_detached") =>
        LET alive == {p \in lastOp.snap : p.job = lastOp.job_id} IN
        /\ (alive # {}) => (lastOp.status.status = "running" /\ lastOp.status.pid # None)
        /\ (alive = {}) => (lastOp.status.status = "done")

\* job names the patterns are tried on
PatternNames == {n \in {"a", "rex-a", "t_1", "A-9", "py", "rex-", "head-1"} : ValidJobName(n)}

\* the command lines that exist on the remote host because of a search for
\* job X: the command sent, its ssh wrapping, and the shells running them
SearchCmdLines(X) ==
    LET sent == {GetStatusCmd(X), KillJobCmd(X), ListJobsCmd} IN
    sent \cup {Wrapped(c) : c \in sent}
         \cup {"bash -c " \o Wrapped(c) : c \in sent}
         \cup {"bash --norc --noprofile -c " \o c : c \in sent}
         \cup {"bash -c " \o ListJobsScript, "head -1"}

NoSelfMatch ==
    \A X \in PatternNames : \A c \in SearchCmdLines(X) : ~RegexSearch(job_pattern(X), c)

C10_NoCrossJobMatch ==
    /\ \A X \in JobIds : \A Y \in JobIds \ {X} :
          remote_script(X) # remote_script(Y) /\ remote_log(X) # remote_log(Y)
    /\ (lastOp.op = "get_status" /\ lastOp.status.pid # None) =>
          \A p \in lastOp.snap : (p.pid = lastOp.status.pid) => (p.job = lastOp.job_id)
    /\ (lastOp.op = "kill_job" /\ lastOp.target # NoProc) =>
          lastOp.target.job = lastOp.job_id

\* C11: kill_job(J) returns True exactly when a process matching J was found
\* and the termination signal was delivered to it; when no process matches
\* it sends no signal and returns False; when the signal could not be
\* delivered, or the remote command gave no recognizable answer, it returns
\* False.
C11_KillJobReturn ==
    (lastOp.op = "kill_job") =>
        LET match == Matching(job_pattern(lastOp.job_id), lastOp.snap) IN
        /\ lastOp.ret <=> (lastOp.code = 0 /\ match # {} /\ lastOp.target # NoProc)
        /\ lastOp.ret => lastOp.target \in match
        /\ lastOp.sig => match # {}
        /\ (match = {}) => (~lastOp.ret /\ ~lastOp.sig /\ lastOp.target = NoProc)
        /\ (lastOp.sig /\ lastOp.target = NoProc) => ~lastOp.ret
        /\ (lastOp.code # 0) => ~lastOp.ret

C11_Witness ==
    /\ lastOp.op = "kill_job"
    /\ lastOp.ret
    /\ lastOp.sig
    /\ lastOp.target.job = lastOp.job_id
    /\ lastOp.target \notin procs

\* C12: after kill_job(J) has returned True for a running detached job, no
\* live process of job J remains, so get_status(J) finds nothing to report
\* as running.
C12_KilledJobHasNoProcess ==
    (/\ lastOp.op = "kill_job"
     /\ lastOp.ret
     /\ lastOp.job_id \in DOMAIN lastOp.jobs) =>
        /\ {p \in procs : p.job = lastOp.job_id} = {}
        /\ Matching(job_pattern(lastOp.job_id), procs) = {}

\* ---------------------------------------------------------------------
\* Properties of detached submission (SpecSubmit)
\* ---------------------------------------------------------------------
\* the last call was a submission that got as far as the sbatch command
SbatchAnswered ==
    /\ sOp.op \in {"run_detached", "exec_detached"}
    /\ sOp.raised = "none"
    /\ sOp.job_id \in submitted

\* t is a bare integer: decimal digits and nothing else
BareInteger(t) == Len(t) > 0 /\ CharsOf(t) \subseteq Range(Digits)

\* C13: a batch submission returns a JobInfo with a scheduler id exactly
\* when sbatch exited 0 and its trimmed output is a bare integer (the id is
\* that integer); otherwise it returns, without raising, a JobInfo with the
\* caller's job id, the job's log path and no scheduler id, after a warning,
\* and the pending header is not written to the log.
C13_SubmitResult ==
    SbatchAnswered =>
        LET t    == Strip(sOp.out.stdout)
            info == sOp.info
        IN  /\ info.job_id = sOp.job_id
            /\ info.is_slurm
            /\ info.log_path = "/home/u/.rex/rex-" \o sOp.job_id \o ".log"
            /\ (info.slurm_id # None) <=> (sOp.out.code = 0 /\ BareInteger(t))
            /\ (info.slurm_id # None) => (info.slurm_id = ParseInt(t) /\ ~sOp.warned)
            /\ (info.slurm_id = None) => (sOp.warned /\ sOp.job_id \notin logHeader)

C13_Witness ==
    /\ SbatchAnswered
    /\ sOp.op = "exec_detached"
    /\ sOp.out = ExecOk("10;cluster\n")
    /\ sOp.info.slurm_id = None
    /\ sOp.job_id \in DOMAIN queue
    /\ sOp.job_id \notin logHeader
    /\ logHeader # {}

\* C14: a transport error at any step of a detached submission ends in a
\* warning and a JobInfo with the caller's job id and no backend id; no
\* submission entry point of either backend raises.
C14_TransportErrorDegrades ==
    /\ (sOp.op \in {"run_detached", "exec_detached"} /\ sOp.failed) =>
          /\ sOp.raised = "none"
          /\ sOp.warned
          /\ sOp.info.job_id = sOp.job_id
          /\ sOp.info.slurm_id = None
    /\ (lastOp.op \in {"run_detached", "exec_detached"} /\ lastOp.code # 0) =>
          /\ lastOp.raised = "none"
          /\ lastOp.info.job_id = lastOp.job_id
          /\ lastOp.info.pid = None

\* ---------------------------------------------------------------------
\* Properties of the SLURM backend's queries (SpecSlurm, SpecWatch)
\* ---------------------------------------------------------------------
\* C15: get_status returns the live-queue state lower-cased when there is
\* one; when the job has left the live queue it reports the final state
\* the accounting records, and reports the job as completed ("done" in
\* this backend's vocabulary) only when accounting says COMPLETED or
\* has nothing conclusive.
C15_StatusFromAccounting ==
    (sOp.op = "get_status" /\ sOp.code = 0) =>
        LET j == sOp.job_id IN
        /\ sOp.status.job_id = j
        /\ (j \in DOMAIN sOp.queue) => sOp.status.status = ToLower(sOp.queue[j].state)
        /\ (/\ j \notin DOMAIN sOp.queue
            /\ j \in DOMAIN sOp.history
            /\ sOp.history[j] \in {"FAILED", "CANCELLED", "TIMEOUT", "NODE_FAIL"}) =>
               sOp.status.status \notin {"done", "completed"}

\* C16: once the live queue no longer lists the job, watch_job of the SLURM
\* backend returns exit code 1 exactly when the accounting state is FAILED,
\* CANCELLED, TIMEOUT or NODE_FAIL, and exit code 0 when it is COMPLETED,
\* empty or a state it does not recognize.
C16_ExitCodeFromAccounting ==
    (wBackend = "slurm" /\ wPc = "done" /\ acct \in AcctStates) =>
        /\ Len(hist) > 0 /\ hist[Len(hist)] = "gone"
        /\ wResult.exit_code \in {0, 1}
        /\ (wResult.exit_code = 1) <=>
              (acct \in {"FAILED", "CANCELLED", "TIMEOUT", "NODE_FAIL"})
        /\ (acct = "COMPLETED") => wResult = JobResult(WatchedJob, "success", 0)
        /\ (acct \notin FinalStates) => wResult = JobResult(WatchedJob, "done", 0)

C16_Witness ==
    /\ wBackend = "slurm"
    /\ wPc = "done"
    /\ hist = <<"running", "completing", "gone">>
    /\ acct = "NODE_FAIL"
    /\ wResult = JobResult(WatchedJob, "failed", 1)

\* C17: every JobStatus that list_jobs of the SLURM backend returns has
\* status pending or running, whatever state the live queue printed.
C17_ListedJobsPendingOrRunning ==
    (sOp.op = "list_jobs") =>
        \A i \in 1..Len(sOp.jobs) : sOp.jobs[i].status \in {"pending", "running"}

\* ---------------------------------------------------------------------
\* Properties of quoting (SpecQuote)
\* ---------------------------------------------------------------------
\* C18: for every value without a $NAME or ${NAME} reference, the text that
\* quote_with_expansion returns, and likewise the text _shell_quote
\* returns, is read by the shell as exactly one word equal to the value,
\* with nothing expanded and nothing substituted.
C18_PlainQuoteRoundTrip ==
    (qPc = "read" /\ ~HasVarRef(qValue)) =>
        /\ qRead.words = <<qValue>>
        /\ qRead.closed
        /\ qRead.clean
        /\ qRead.expansions = {}
        /\ ~qRead.cmdsub

C18_Witness ==
    /\ qPc = "read"
    /\ qFn = "quote_with_expansion"
    /\ qValue = PlainValue
    /\ qRead.words = <<qValue>>

\* the value with a backslash put before every backslash, double quote and
\* backtick and before the `$` of every `$(`, from position i on
RECURSIVE EscapeFrom(_, _)
EscapeFrom(v, i) ==
    IF i > Len(v) THEN ""
    ELSE (IF Ch(v, i) \in {"\\", "\"", Backtick} \/ (Ch(v, i) = "$" /\ At(v, i + 1) = "(")
          THEN "\\" \o Ch(v, i)
          ELSE Ch(v, i)) \o EscapeFrom(v, i + 1)

\* the number of backslashes that stand right before position p of s
RECURSIVE BackslashesBefore(_, _)
BackslashesBefore(s, p) ==
    IF At(s, p - 1) = "\\" THEN 1 + BackslashesBefore(s, p - 1) ELSE 0

\* where the character at position i of the value stands in the output
OutPos(v, i) == 2 + Len(EscapeFrom(SubSeq(v, 1, i - 1) \o Ch(v, i), 1)) - 1

NumModuleLines == IF Len(ctx.modules) > 0 THEN 1 ELSE 0

NumSourceLines == IF Truthy(ctx.code_dir) THEN 1 ELSE 0

NumCdLines == IF Truthy(ctx.run_dir) THEN 1 ELSE 0

\* C20: applying an ExecutionContext emits, after the shebang, exactly: one
\* module-load line iff modules is non-empty, one export line per
\* environment entry in order, one source line for the virtualenv iff
\* code_dir is set, one cd line (with mkdir -p before it when requested)
\* iff run_dir is set, in that order and nothing else;
\* build_context_commands returns the same lines; a context with nothing
\* set emits no line beyond the shebang.
C20_ContextLines ==
    (cPc \in {"applied", "built"}) =>
        LET body == SubSeq(lines, 2, Len(lines))
            e    == NumModuleLines
            s    == NumModuleLines + Len(ctx.env)
            d    == NumModuleLines + Len(ctx.env) + NumSourceLines
        IN  /\ lines[1] \in {"#!/bin/bash", "#!/bin/bash -l"}
            /\ Len(body) = d + NumCdLines
            /\ (NumModuleLines = 1) => body[1] = "module load " \o Join(ctx.modules, " ")
            /\ \A k \in 1..Len(ctx.env) :
                   /\ StartsWith(body[e + k], "export " \o ctx.env[k][1] \o "=")
                   /\ body[e + k] = "export " \o ctx.env[k][1] \o "="
                                        \o quote_with_expansion(ctx.env[k][2])
            /\ (NumSourceLines = 1) =>
                   body[s + 1] = "source "
                       \o shlex_quote(ctx.code_dir[1] \o "/.venv/bin/activate")
            /\ (NumCdLines = 1) =>
                   body[d + 1] =
                       IF mkdir_run_dir
                       THEN "mkdir -p " \o shlex_quote(ctx.run_dir[1]) \o " && cd "
                                \o shlex_quote(ctx.run_dir[1])
                       ELSE "cd " \o shlex_quote(ctx.run_dir[1])
            /\ (cPc = "built") => commands = body
            /\ (/\ ctx.modules = <<>> /\ ctx.env = <<>>
                /\ ~Truthy(ctx.code_dir) /\ ~Truthy(ctx.run_dir)) => Len(lines) = 1

C20_Witness ==
    /\ cPc = "built"
    /\ mkdir_run_dir
    /\ lines = <<"#!/bin/bash -l",
                 "module load gcc cuda/12",
                 "export P=\"$HOME/bin\"",
                 "export B='it'\"'\"'s'",
                 "source '/my dir/.venv/bin/activate'",
                 "mkdir -p /data/x && cd /data/x">>
    /\ commands = SubSeq(lines, 2, 6)

\* ---------------------------------------------------------------------
\* Properties of the batch script (SpecBatch)
\* ---------------------------------------------------------------------
\* the script lines that are scheduler directives
DirectiveLines(L) == {i \in 1..Len(L) : StartsWith(L[i], "#SBATCH --")}

\* the mappings whose SlurmOptions field is not None
NonNullOptions(o) == {k \in 1..Len(OPTION_MAPPINGS) : o[OPTION_MAPPINGS[k][1]] # NoStr}

\* the directive line of mapping k
DirectiveOf(o, k) ==
    "#SBATCH --" \o OPTION_MAPPINGS[k][2] \o "="
        \o OptionStr(OPTION_MAPPINGS[k][1], o[OPTION_MAPPINGS[k][1]][1])

\* the first line of the header, and the lines that apply the context
HeaderLines(L) == {i \in 1..Len(L) : L[i] = "echo \"[rex] Running: $(date)\""}

ContextLines(L) ==
    {i \in 1..Len(L) :
        \E k \in 1..Len(build_context_commands(ctx, mkdir_run_dir)) :
            L[i] = build_context_commands(ctx, mkdir_run_dir)[k]}

\* the directives stand before the header and every context-application line
DirectivesBeforeBody(L) ==
    \A d \in DirectiveLines(L) : \A i \in HeaderLines(L) \cup ContextLines(L) : d < i

C22_FooterReportsExit ==
    (bPc = "exited" /\ payCode # None) =>
        /\ shCode = payCode
        /\ Len(jobLog) > 0
        /\ jobLog[Len(jobLog)] = "[rex] Exit code: " \o IntToStr(payCode)

\* ---------------------------------------------------------------------
\* Properties of foreground execution (SpecFg)
\* ---------------------------------------------------------------------
\* some line of cmd is the heredoc delimiter
SomeLineIsDelimiter(cmd) ==
    \E i \in 1..Len(SplitLines(cmd)) : SplitLines(cmd)[i] = "REXCMD"

C24_ForegroundCleansUp ==
    (fOp.op \in {"run_foreground", "exec_foreground"} /\ fOp.raised = "none") =>
        /\ fOp.created \cap DOMAIN tmpFiles = {}
        /\ fOp.code # None => fOp.ret = fOp.code

\* ---------------------------------------------------------------------
\* Properties of the connection commands (SpecConn)
\* ---------------------------------------------------------------------
\* C25: when the ssh process that is to become the master exits non-zero,
\* SSHConnection.connect raises SSHError and has printed "Failed to connect",
\* the --connect command ends with a non-zero exit code, and neither reports
\* a connection
C25_ConnectFailureRaises ==
    (connOp.op \in {"SSHConnection.connect", "connect"}
        /\ connOp.rc # None /\ connOp.rc # 0) =>
        /\ connOp.op = "SSHConnection.connect" => connOp.raised = "SSHError"
        /\ connOp.op = "connect" => (connOp.exit # 0 /\ connOp.exit # None)
        /\ \E i \in 1..Len(connOp.msgs) : Contains(connOp.msgs[i], "Failed to connect")
        /\ \A i \in 1..Len(connOp.msgs) : ~StartsWith(connOp.msgs[i], "Connected to")
        /\ ~is_connected(connOp.target)

\* ---------------------------------------------------------------------
\* Properties of the batch job's log (SpecLog)
\* ---------------------------------------------------------------------
\* C26: once the header command has run to its end, the log holds the
\* header followed by every line the job has written so far, whenever the
\* scheduler started the job
C26_HeaderThenAllOutput ==
    (lPc = "returned" /\ lSlurmId # None) =>
        logFile = PendingHeader(lSlurmId) \o jobOut

\* ---------------------------------------------------------------------
\* Properties of watch_job and watch_jobs, continued (SpecWatch, SpecMulti)
\* ---------------------------------------------------------------------
\* C27: when the session of the accounting query of SlurmExecutor.watch_job
\* fails, the poll counts as a failed one (failures is at least 1 and the
\* loop sleeps, or the budget is spent and the result is "unknown"); the job
\* is not reported with exit code 0
C27_AcctFailureIsFailedPoll ==
    (wBackend = "slurm" /\ acct = "fail") =>
        /\ failures >= 1
        /\ wPc = "done" => (wResult.status = "unknown" /\ wResult.exit_code = 1)

\* C28: a job gets the same outcome watched alone and watched with another
\* job: once both runs have finished with J on the same sequence of
\* backend answers, the loop's result for J has the status and the exit
\* code of watch_job's result.
C28_SameOutcomeAloneAndTogether ==
    (/\ wPc = "done"
     /\ WatchedJob \in DOMAIN results
     /\ mAns[WatchedJob] = hist) =>
        /\ results[WatchedJob].status = wResult.status
        /\ results[WatchedJob].exit_code = wResult.exit_code

\* the exit codes recorded in the result map
ExitCodes_of(res) == {res[j].exit_code : j \in DOMAIN res}

\* between two rounds: at the `while` test, in the sleep, after the return
RoundBoundary == mPc \in {"while", "sleep", "done"}

PendingResultsPartition ==
    /\ pending \cap DOMAIN results = {}
    /\ pending \cup DOMAIN results = Range(job_ids)

LoopReturned ==
    /\ pending = {}
    /\ DOMAIN results = Range(job_ids)
    /\ \A j \in Range(job_ids) : results[j].job_id = j
    /\ mRet \in ExitCodes_of(results)
    /\ \A j \in Range(job_ids) : results[j].exit_code <= mRet
    /\ (mRet = 0) <=> (\A j \in Range(job_ids) : results[j].exit_code = 0)

\* a step of the loop: it is left from the `while` test exactly when
\* pending is empty, and a result once written is never written again
LoopStep ==
    /\ (mPc = "while" /\ mPc' # mPc) => ((mPc' = "done") <=> (pending = {}))
    /\ mPc' = "done" => mPc \in {"while", "done"}
    /\ \A j \in DOMAIN results : j \in DOMAIN results' /\ results'[j] = results[j]

\* C29: in the multi-job loop, at every round boundary pending and the
\* keys of the result map are disjoint and together are the requested job
\* ids; the loop is left exactly when pending is empty; every requested
\* job then has exactly one result, and the value returned is the largest
\* of the exit codes (0 iff all of them are 0).
C29_PendingResultsPartition ==
    /\ [](RoundBoundary => PendingResultsPartition)
    /\ [](mPc = "done" => LoopReturned)
    /\ [][LoopStep]_mvars

\* two different jobs, finished in different rounds, and the loop returned
C29_Witness ==
    /\ mPc = "done"
    /\ Cardinality(Range(job_ids)) = 2
    /\ \E i, j \in DOMAIN mReport : mReport[i].round # mReport[j].round
    /\ mRet = 1

\* C30: every job id that reaches a remote command line or a remote path
\* matches [a-zA-Z0-9_-]+, whether it came from --name, --status, --log,
\* --kill or --watch, from the most recent log, or from generate_job_name.
C30_JobIdsAreValidated ==
    \A i \in DOMAIN cliJobIds : ValidJobName(cliJobIds[i])

====
